---------------------------- MODULE Spec2Model ----------------------------
(***************************************************************************)
(* A model of rusty-web: the per-connection driver (lib.rs), the header    *)
(* extractor and header helpers (headers/mod.rs), the Request accessors    *)
(* (request/mod.rs), the Response writer (response/mod.rs) and the body    *)
(* decoders (parser/mod.rs: body, url_encoded, multipart).                 *)
(*                                                                         *)
(* Bytes are integers 0..255 (ASCII codes), byte strings are sequences of  *)
(* bytes.  Option<T> is a sequence of length at most one: None is <<>>,    *)
(* Some(x) is <<x>>.  A Result is a record with a field ok.  A HashMap is  *)
(* a function whose domain is the set of its keys.                         *)
(*                                                                         *)
(* One socket read is one step: an action runs the code from one blocking  *)
(* read (or from the start of a call) up to the next blocking read.        *)
(***************************************************************************)
EXTENDS Integers, Sequences, FiniteSets, TLC

\* ------------------------------------------------------------------ bounds

\* extract_headers on its own is called with a limit of at most MaxHeaderLimit.
MaxHeaderLimit == 4

\* A socket read returns at most MaxRead bytes, or everything that is queued.
MaxRead == 2
\* A handler makes at most MaxCalls accessor calls (body, form_data, files).
MaxCalls == 2
\* multipart::parse is called with per-field limits of at most MaxPartLimit bytes.
MaxPartLimit == 3

\* parse_form_part_header is called with header blocks of at most MaxPartLines lines.
MaxPartLines == 2

\* ---------------------------------------------------------- byte strings

None == <<>>
Some(x) == <<x>>
IsSome(o) == o # <<>>
Unwrap(o) == o[1]

Min(a, b) == IF a <= b THEN a ELSE b
Max(a, b) == IF a >= b THEN a ELSE b
MinOf(S) == CHOOSE x \in S : \A y \in S : x <= y
MaxOf(S) == CHOOSE x \in S : \A y \in S : x >= y

\* Rust slices, zero-based and half-open: s[..n], s[n..], s[a..b].
Take(s, n) == SubSeq(s, 1, n)
Drop(s, n) == SubSeq(s, n + 1, Len(s))
Slice(s, a, b) == SubSeq(s, a + 1, b)

StartsWith(s, p) == Len(s) >= Len(p) /\ SubSeq(s, 1, Len(p)) = p
\* A slice::ends_with that finds no suffix.
ends_with_nothing(s, p) == FALSE
EndsWith(s, p) == Len(s) >= Len(p) /\ SubSeq(s, Len(s) - Len(p) + 1, Len(s)) = p

\* slice.windows(p.len()).position(|w| w == p), str::find: the zero-based
\* index of the first occurrence of p in s.
Position(s, p) ==
    LET at(i) == s[i + 1] = p[1] /\ SubSeq(s, i + 1, i + Len(p)) = p
        last == Len(s) - Len(p)
    IN  IF \E i \in 0..last : at(i)
        THEN Some(CHOOSE i \in 0..last : at(i) /\ \A j \in 0..(i - 1) : ~at(j))
        ELSE None

\* str::split(sep): the pieces between the occurrences of sep.
RECURSIVE Split(_, _)
Split(s, sep) ==
    LET p == Position(s, sep)
    IN  IF p = None THEN <<s>>
        ELSE <<Take(s, Unwrap(p))>> \o Split(Drop(s, Unwrap(p) + Len(sep)), sep)

\* str::splitn(2, sep): split at the first occurrence only.
Splitn2(s, sep) ==
    LET p == Position(s, sep)
    IN  IF p = None THEN <<s>>
        ELSE <<Take(s, Unwrap(p)), Drop(s, Unwrap(p) + Len(sep))>>

\* char::is_whitespace on ASCII: tab, LF, VT, FF, CR, space.
IsSpace(b) == b \in {9, 10, 11, 12, 13, 32}

\* str::trim
Trim(s) ==
    LET keep == {i \in 1..Len(s) : ~IsSpace(s[i])}
    IN  IF keep = {} THEN <<>> ELSE SubSeq(s, MinOf(keep), MaxOf(keep))

\* str::to_lowercase, str::to_uppercase on ASCII
ToLower(s) == [i \in 1..Len(s) |-> IF s[i] \in 65..90 THEN s[i] + 32 ELSE s[i]]
ToUpper(s) == [i \in 1..Len(s) |-> IF s[i] \in 97..122 THEN s[i] - 32 ELSE s[i]]

IsDigit(b) == b \in 48..57

RECURSIVE DecimalValue(_)
DecimalValue(s) ==
    IF s = <<>> THEN 0 ELSE 10 * DecimalValue(Take(s, Len(s) - 1)) + (s[Len(s)] - 48)

\* str::parse::<usize>: an optional '+' and at least one digit.
ParseUsize(s) ==
    LET d == IF s # <<>> /\ s[1] = 43 THEN Drop(s, 1) ELSE s
    IN  IF d # <<>> /\ \A i \in 1..Len(d) : IsDigit(d[i]) THEN Some(DecimalValue(d)) ELSE None

\* HashMap<String, Vec<T>>
EmptyMap == <<>>
\* map.entry(k).or_default().push(v), as the code spells it out
MapPush(m, k, v) ==
    [x \in DOMAIN m \cup {k} |-> IF x = k THEN (IF k \in DOMAIN m THEN m[k] ELSE <<>>) \o <<v>> ELSE m[x]]
\* map.insert(k, vs)
MapInsert(m, k, vs) == [x \in DOMAIN m \cup {k} |-> IF x = k THEN vs ELSE m[x]]

CRLF == <<13,10>>  \* \r\n
CRLFCRLF == <<13,10,13,10>>  \* \r\n\r\n
STR_Content_Length == <<67,111,110,116,101,110,116,45,76,101,110,103,116,104>>  \* Content-Length
STR_Content_Type == <<67,111,110,116,101,110,116,45,84,121,112,101>>  \* Content-Type
STR_Connection == <<67,111,110,110,101,99,116,105,111,110>>  \* Connection
STR_keep_alive == <<107,101,101,112,45,97,108,105,118,101>>  \* keep-alive
STR_HEAD == <<72,69,65,68>>  \* HEAD
STR_GET == <<71,69,84>>  \* GET
STR_OPTIONS == <<79,80,84,73,79,78,83>>  \* OPTIONS
STR_DELETE == <<68,69,76,69,84,69>>  \* DELETE
STR_TRACE == <<84,82,65,67,69>>  \* TRACE
STR_CONNECT == <<67,79,78,78,69,67,84>>  \* CONNECT
STR_multipart_form_data == <<109,117,108,116,105,112,97,114,116,47,102,111,114,109,45,100,97,116,97,59>>  \* multipart/form-data;
STR_urlencoded == <<97,112,112,108,105,99,97,116,105,111,110,47,120,45,119,119,119,45,102,111,114,109,45,117,114,108,101,110,99,111,100,101,100>>  \* application/x-www-form-urlencoded
STR_boundary_eq == <<98,111,117,110,100,97,114,121,61>>  \* boundary=
STR_content_disposition == <<99,111,110,116,101,110,116,45,100,105,115,112,111,115,105,116,105,111,110>>  \* content-disposition
STR_content_type == <<99,111,110,116,101,110,116,45,116,121,112,101>>  \* content-type
STR_form_data == <<102,111,114,109,45,100,97,116,97,59>>  \* form-data;
STR_name == <<110,97,109,101>>  \* name
STR_filename == <<102,105,108,101,110,97,109,101>>  \* filename
STR_text_html == <<116,101,120,116,47,104,116,109,108>>  \* text/html
STR_404_NOT_FOUND == <<52,48,52,32,78,79,84,32,70,79,85,78,68>>  \* 404 NOT FOUND

\* ------------------------------------------------------- headers/mod.rs

\* Returns size of header end position if header ends with "\r\n\r\n".  The
\* code scans the whole zero-filled 1 KiB buffer; the bytes past read_size
\* are zero and take part in no match, so the scan is that of the bytes read.
contains_full_headers(buffer) == Position(buffer, CRLFCRLF)

\* parse_header: line.splitn(2, ":"), both sides trimmed.
parse_header(line) ==
    LET header_line == Splitn2(line, <<58>>)
    IN  IF Len(header_line) >= 2
        THEN Some(<<Trim(header_line[1]), Trim(header_line[2])>>)
        ELSE None

\* The loop over header_lines of extract_headers: multi-value accumulation.
RECURSIVE collect_headers(_, _)
collect_headers(lines, headers) ==
    IF lines = <<>> THEN headers
    ELSE LET key_value == parse_header(lines[1])
         IN  collect_headers(Drop(lines, 1),
                IF IsSome(key_value)
                THEN MapPush(headers, Unwrap(key_value)[1], Unwrap(key_value)[2])
                ELSE headers)

\* Regex (?<method>.+) (?<path>.+) (.+), unanchored: both groups are greedy,
\* so the method ends at the last space that still leaves " <path> <version>"
\* and the path ends at the last space that leaves a non-empty version.  "."
\* matches no LF; the request lines of the model hold none.
parse_request_method_header(line) ==
    LET n == Len(line)
        firsts == {i \in 2..(n - 3) : line[i] = 32 /\ \E j \in (i + 2)..(n - 1) : line[j] = 32}
    IN  IF firsts = {} \/ (\E i \in 1..n : line[i] = 10) THEN None
        ELSE LET i == MaxOf(firsts)
                 j == MaxOf({k \in (i + 2)..(n - 1) : line[k] = 32})
             IN  Some(<<Take(line, i - 1), Slice(line, i, j - 1)>>)

\* headers::content_length: the first Content-Length value parsed as usize;
\* the code panics ("Invalid content length") when it is no number.
content_length_panics(headers) ==
    /\ STR_Content_Length \in DOMAIN headers
    /\ ParseUsize(headers[STR_Content_Length][1]) = None

content_length(headers) ==
    IF STR_Content_Length \in DOMAIN headers
    THEN ParseUsize(headers[STR_Content_Length][1])
    ELSE None

connection_type(headers) ==
    IF STR_Connection \in DOMAIN headers THEN Some(headers[STR_Connection][1]) ELSE None

extract_content_type(headers) ==
    IF STR_Content_Type \in DOMAIN headers THEN Some(headers[STR_Content_Type][1]) ELSE None

\* -------------------------------------------- parser/mod.rs: url decoding

IsHex(b) == b \in 48..57 \/ b \in 65..70 \/ b \in 97..102
HexValue(b) == IF b \in 48..57 THEN b - 48 ELSE IF b \in 65..70 THEN b - 55 ELSE b - 87

\* urlencoding's percent decoding: %XY with two hex digits is one byte, any
\* other '%' stays as it is; '+' is not a space.
RECURSIVE decode_binary(_)
decode_binary(s) ==
    IF s = <<>> THEN <<>>
    ELSE IF s[1] = 37 /\ Len(s) >= 3 /\ IsHex(s[2]) /\ IsHex(s[3])
         THEN <<16 * HexValue(s[2]) + HexValue(s[3])>> \o decode_binary(Drop(s, 3))
         ELSE <<s[1]>> \o decode_binary(Drop(s, 1))

\* url_decode: the decoded text, or the input itself when urlencoding::decode
\* fails (the decoded bytes are no UTF-8; here: a byte outside ASCII).
url_decode(value) ==
    LET decoded == decode_binary(value)
    IN  IF \A i \in 1..Len(decoded) : decoded[i] < 128 THEN decoded ELSE value

\* One pass of the loop of parse_url_encoded over the "&"-separated pieces.
\* acc is [panic, params]: params.get_mut(&name_formatted).unwrap() panics
\* when the map holds no entry under the decoded name.
RECURSIVE parse_url_encoded_loop(_, _)
parse_url_encoded_loop(values, acc) ==
    IF values = <<>> \/ acc.panic THEN acc
    ELSE LET key_values == Split(values[1], <<61>>)
         IN  IF Len(key_values) >= 2
             THEN LET name == key_values[1]
                      name_formatted == url_decode(name)
                      value_formatted == url_decode(key_values[2])
                      inserted == IF name_formatted \in DOMAIN acc.params
                                  THEN acc.params
                                  ELSE MapInsert(acc.params, name, <<>>)
                  IN  IF name_formatted \in DOMAIN inserted
                      THEN parse_url_encoded_loop(Drop(values, 1),
                              [panic |-> FALSE,
                               params |-> MapPush(inserted, name_formatted, value_formatted)])
                      ELSE [panic |-> TRUE, params |-> inserted]
             ELSE parse_url_encoded_loop(Drop(values, 1), acc)

parse_url_encoded(text) ==
    parse_url_encoded_loop(Split(text, <<38>>), [panic |-> FALSE, params |-> EmptyMap])

\* headers::query_params_from_raw
query_params_from_raw(raw_path) ==
    LET match_result == Position(raw_path, <<63>>)
    IN  IF match_result = None THEN [panic |-> FALSE, params |-> EmptyMap]
        ELSE IF Unwrap(match_result) = Len(raw_path) - 1
             THEN [panic |-> FALSE, params |-> EmptyMap]
             ELSE parse_url_encoded(Drop(raw_path, Unwrap(match_result) + 1))

\* ------------------------------------------------------- request/mod.rs

pathname_from_raw(raw_path) ==
    LET index == Position(raw_path, <<63>>)
    IN  IF IsSome(index) THEN Take(raw_path, Unwrap(index)) ELSE raw_path

\* Request::new: the parsed head; form_data and form_files start empty.
NewRequest(request_method, raw_path, headers) ==
    [method |-> request_method,
     raw_path |-> raw_path,
     pathname |-> pathname_from_raw(raw_path),
     query_params |-> query_params_from_raw(raw_path).params,
     headers |-> headers,
     partial_body |-> None,
     form_data |-> EmptyMap,
     form_files |-> EmptyMap,
     body_read |-> FALSE,
     body_parsed |-> FALSE]

\* The methods for which setup() assumes there is no body.
BodilessMethods == {STR_GET, STR_HEAD, STR_OPTIONS, STR_DELETE, STR_TRACE, STR_CONNECT}

\* Request::setup comparing the method as it was sent.
setup_case_sensitive(req) ==
    IF req.method \in BodilessMethods /\ ~IsSome(content_length(req.headers))
    THEN [req EXCEPT !.body_read = TRUE]
    ELSE req

\* Request::setup
setup(request) ==
    IF ToUpper(request.method) \in BodilessMethods /\ ~IsSome(content_length(request.headers))
    THEN [request EXCEPT !.body_read = TRUE]
    ELSE request

\* A set_partial_body_bytes that throws the bytes away.
set_partial_body_bytes_dropped(request, bytes) == [request EXCEPT !.partial_body = Some(<<>>)]

\* Request::set_partial_body_bytes
set_partial_body_bytes(request, bytes) == [request EXCEPT !.partial_body = Some(bytes)]

\* Request::should_close_connection without the test of body_read.
should_close_ignoring_body_read(req) ==
    LET ct == connection_type(req.headers)
    IN  ~(IsSome(ct) /\ ToLower(Unwrap(ct)) = STR_keep_alive)

\* Request::should_close_connection
should_close_connection(request) ==
    LET ct == connection_type(request.headers)
    IN  ~(IsSome(ct) /\ ToLower(Unwrap(ct)) = STR_keep_alive /\ request.body_read)

\* ------------------------------------------ parser/mod.rs: multipart head

\* multipart::extract_boundary: the second ";"-separated token with the
\* prefix "boundary=" stripped; strip_prefix(..).unwrap() panics without it.
extract_boundary_panics(content_type) ==
    LET value == Split(content_type, <<59>>)
    IN  Len(value) >= 2 /\ ~StartsWith(Trim(value[2]), STR_boundary_eq)

extract_boundary(content_type) ==
    LET value == Split(content_type, <<59>>)
    IN  IF Len(value) >= 2
        THEN Some(Drop(Trim(value[2]), Len(STR_boundary_eq)))
        ELSE None

\* A NamedTempFile after its write_all calls: the cursor stands behind the
\* last byte written.
spooled_file(content) == [content |-> content, pos |-> Len(content)]

\* A seek that leaves the cursor where it is.
seek_nowhere(file) == file

\* temp_file.seek(SeekFrom::Start(0))
seek_start(file) == [file EXCEPT !.pos = 0]

\* FormPart::empty; temp_file holds Some([content, pos]) once spooled.
EmptyFormPart ==
    [name |-> None, filename |-> None, content_type |-> None, temp_file |-> None, value |-> None]

\* \w of the regex crate, on ASCII
IsWord(b) == b \in 48..57 \/ b \in 65..90 \/ b \in 97..122 \/ b = 95

\* The end (exclusive, one-based) of the run of \w bytes that starts at i.
WordEnd(s, i) == MinOf({j \in i..(Len(s) + 1) : j = Len(s) + 1 \/ ~IsWord(s[j])})

\* Whether (?<attribute>\w+)="(?<value>[^"]*)" matches starting at i.
AttributeAt(s, i) ==
    /\ IsWord(s[i])
    /\ LET e == WordEnd(s, i)
       IN  /\ e + 1 <= Len(s)
           /\ s[e] = 61
           /\ s[e + 1] = 34
           /\ \E q \in (e + 2)..Len(s) : s[q] = 34

\* pattern.captures_iter(remaining): the successive leftmost matches, each
\* as <<attribute, value>>.
RECURSIVE captures_iter(_)
captures_iter(s) ==
    LET starts == {i \in 1..Len(s) : AttributeAt(s, i)}
    IN  IF starts = {} THEN <<>>
        ELSE LET i == MinOf(starts)
                 e == WordEnd(s, i)
                 q == MinOf({k \in (e + 2)..Len(s) : s[k] = 34})
             IN  <<<<SubSeq(s, i, e - 1), SubSeq(s, e + 2, q - 1)>>>> \o captures_iter(Drop(s, q))

RECURSIVE apply_attributes(_, _)
apply_attributes(captured, form_part) ==
    IF captured = <<>> THEN form_part
    ELSE apply_attributes(Drop(captured, 1),
            IF captured[1][1] = STR_name
            THEN [form_part EXCEPT !.name = Some(captured[1][2])]
            ELSE IF captured[1][1] = STR_filename
                 THEN [form_part EXCEPT !.filename = Some(captured[1][2])]
                 ELSE form_part)

\* multipart::parse_content_disposition_value
parse_content_disposition_value(value, form_part) ==
    LET v == Trim(value)
    IN  IF ~StartsWith(v, STR_form_data) THEN form_part
        ELSE apply_attributes(captures_iter(Trim(Drop(v, Len(STR_form_data)))), form_part)

\* multipart::parse_content_type
parse_content_type(value, form_part) == [form_part EXCEPT !.content_type = Some(value)]

\* multipart::parse_header_line: line.split(":"), pieces 0 and 1.
parse_header_line(line, form_part) ==
    LET l == Trim(line)
        name_value == Split(l, <<58>>)
    IN  IF l = <<>> \/ Len(name_value) < 2 THEN form_part
        ELSE LET header_name == Trim(name_value[1])
                 header_value == Trim(name_value[2])
             IN  IF ToLower(header_name) = STR_content_disposition
                 THEN parse_content_disposition_value(header_value, form_part)
                 ELSE IF ToLower(header_name) = STR_content_type
                      THEN parse_content_type(header_value, form_part)
                      ELSE form_part

RECURSIVE parse_header_lines(_, _)
parse_header_lines(headers, form_part) ==
    IF headers = <<>> THEN form_part
    ELSE parse_header_lines(Drop(headers, 1), parse_header_line(headers[1], form_part))

\* multipart::parse_form_part_header
parse_form_part_header(part_header) == parse_header_lines(Split(part_header, CRLF), EmptyFormPart)

\* --------------------------------------- parser/mod.rs: multipart parser
\*
\* The parser is a record m: st is the place in the code, wait the reader
\* operation it is blocked on ("none", "chunk" for get_chunk, "exact" for
\* get_exact(need)), and the rest are the locals of parse_body_parts,
\* extract_form_part_header, extract_form_file_body and extract_form_value.

\* format!("--{}\r\n", boundary) and format!("\r\n--{}", boundary)
start_boundary(boundary) == <<45, 45>> \o boundary \o CRLF
file_end_matcher(boundary) == CRLF \o <<45, 45>> \o boundary
END_BODY_BYTES == <<45,45,13,10>>  \* --\r\n

\* The limits Request::parse_request_body passes to multipart::parse.
MAX_BODY_SIZE == 536870912
MAX_HEADER_SIZE == 1048576
\* The limits of Request::body and of the url-encoded branch.
BODY_MAX_BODY_SIZE == 536870912
URL_MAX_BODY_SIZE == 2097152
RequestLimits ==
    [max_body_size |-> Some(MAX_BODY_SIZE),
     max_header_size |-> Some(MAX_HEADER_SIZE),
     form_part_limits |-> EmptyMap]

\* The locals at the entry of parse_body_parts.
mp_new(partial_bytes, boundary, limits) ==
    [st |-> "start", wait |-> "none", need |-> 0, err |-> "", err_field |-> None,
     err_text |-> "",
     body_buffer |-> partial_bytes, header_buffer |-> <<>>,
     form_parts |-> <<>>, form_part |-> EmptyFormPart,
     bytes_written |-> 0, temp_file |-> <<>>, value_buffer |-> <<>>,
     boundary |-> boundary, limits |-> limits]

mp_err(m, error) == [m EXCEPT !.st = "err", !.wait = "none", !.err = error]

\* MultipartFormDataError::Others with the message it carries.
mp_err_others(m, text) == [mp_err(m, "Others") EXCEPT !.err_text = text]

\* parse_body_parts, up to the check of the starting boundary
parse_body_parts(m) ==
    LET start_boundary_bytes == start_boundary(m.boundary)
    IN  IF Len(m.body_buffer) <= Len(start_boundary_bytes)
        THEN [m EXCEPT !.st = "start_check", !.wait = "exact",
                       !.need = Len(start_boundary_bytes) - Len(m.body_buffer)]
        ELSE [m EXCEPT !.st = "start_check"]

\* body_buffer_starts_with_boundary and the removal of the starting boundary
start_check(m) ==
    LET start_boundary_bytes == start_boundary(m.boundary)
    IN  IF Take(m.body_buffer, Len(start_boundary_bytes)) # start_boundary_bytes
        THEN mp_err(m, "InvalidMultiPart")
        ELSE [m EXCEPT !.st = "hdr", !.header_buffer = <<>>,
                       !.body_buffer = Drop(m.body_buffer, Len(start_boundary_bytes))]

header_too_large(m, header_buffer) ==
    IsSome(m.limits.max_header_size) /\ Len(header_buffer) >= Unwrap(m.limits.max_header_size)

\* One pass of the loop of extract_form_part_header.  When the header is
\* found, parse_body_parts goes on to parse_form_part_header and to
\* extract_form_part_body, which picks the file or the value branch.
extract_form_part_header(m) ==
    LET scan_result == Position(m.body_buffer, CRLFCRLF)
    IN  IF IsSome(scan_result)
        THEN LET found_index == Unwrap(scan_result)
                 form_part_header_buffer == m.header_buffer \o Take(m.body_buffer, found_index)
                 form_part == parse_form_part_header(form_part_header_buffer)
             IN  IF header_too_large(m, form_part_header_buffer)
                 THEN mp_err(m, "HeaderSizeExceed")
                 ELSE [m EXCEPT !.header_buffer = form_part_header_buffer,
                                !.body_buffer = Drop(m.body_buffer, found_index + Len(CRLFCRLF)),
                                !.form_part = form_part,
                                !.bytes_written = 0, !.temp_file = <<>>, !.value_buffer = <<>>,
                                !.st = IF IsSome(form_part.filename) THEN "file" ELSE "val"]
        ELSE LET to_copy_to_header_buffer == Len(m.body_buffer) - Len(CRLFCRLF)
                 form_part_header_buffer ==
                    IF to_copy_to_header_buffer > 0
                    THEN m.header_buffer \o CRLFCRLF   \* extend(header_end_bytes)
                    ELSE m.header_buffer
                 body_buffer ==
                    IF to_copy_to_header_buffer > 0
                    THEN Drop(m.body_buffer, to_copy_to_header_buffer)
                    ELSE m.body_buffer
             IN  IF header_too_large(m, form_part_header_buffer)
                 THEN mp_err(m, "HeaderSizeExceed")
                 ELSE [m EXCEPT !.header_buffer = form_part_header_buffer,
                                !.body_buffer = body_buffer,
                                !.wait = "chunk"]

\* extract_form_part_body: limits.form_part_limits.get(&field_name)
form_part_limit(m) ==
    IF IsSome(m.form_part.name) /\ Unwrap(m.form_part.name) \in DOMAIN m.limits.form_part_limits
    THEN Some(m.limits.form_part_limits[Unwrap(m.form_part.name)])
    ELSE None

\* form_part_limit.unwrap().max_size.unwrap() panics on a limit without size
limit_panics(m) == IsSome(form_part_limit(m)) /\ ~IsSome(Unwrap(form_part_limit(m)).max_size)
over_limit(m, bytes_written) ==
    IsSome(form_part_limit(m)) /\ bytes_written > Unwrap(Unwrap(form_part_limit(m)).max_size)

mp_field_err(m) ==
    [m EXCEPT !.st = "err", !.wait = "none", !.err = "MaxFieldSizeExceed",
              !.err_field = m.form_part.name]

\* The state after the limit check that follows a write: st_next when the
\* part is within its limit.
after_limit_check(m, st_next, wait_next, need_next) ==
    IF limit_panics(m) THEN [m EXCEPT !.st = "panic", !.wait = "none"]
    ELSE IF over_limit(m, m.bytes_written) THEN mp_field_err(m)
    ELSE [m EXCEPT !.st = st_next, !.wait = wait_next, !.need = need_next]

\* One pass of the loop of extract_form_file_body, up to the boundary tail.
extract_form_file_body(m) ==
    LET file_end_matching_bytes == file_end_matcher(m.boundary)
        search_file_end == Position(m.body_buffer, file_end_matching_bytes)
    IN  IF IsSome(search_file_end)
        THEN LET body_end_index == Unwrap(search_file_end)
                 bytes_to_copy == Take(m.body_buffer, body_end_index)
                 stripped == IF EndsWith(bytes_to_copy, CRLF)
                             THEN Take(bytes_to_copy, Len(bytes_to_copy) - 2)
                             ELSE bytes_to_copy
                 m1 == IF body_end_index > 0
                       THEN [m EXCEPT !.bytes_written = m.bytes_written + Len(bytes_to_copy),
                                      !.temp_file = m.temp_file \o stripped,
                                      !.body_buffer = Drop(m.body_buffer,
                                            body_end_index + Len(file_end_matching_bytes))]
                       ELSE m
             IN  IF Len(m1.body_buffer) < 4
                 THEN after_limit_check(m1, "file_tail", "exact", 4 - Len(m1.body_buffer))
                 ELSE after_limit_check(m1, "file_tail", "none", 0)
        ELSE LET to_copy_size == Len(m.body_buffer) - (Len(file_end_matching_bytes) + 2)
                 m1 == IF to_copy_size > 0
                       THEN [m EXCEPT !.temp_file = m.temp_file \o Take(m.body_buffer, to_copy_size),
                                      !.body_buffer = Drop(m.body_buffer, to_copy_size),
                                      !.bytes_written = m.bytes_written + to_copy_size]
                       ELSE m
             IN  after_limit_check(m1, "file", "chunk", 0)

\* The boundary tail of extract_form_file_body: "--\r\n" ends the body,
\* "\r\n" leads to the next part.  The temporary file is sought to 0.
file_tail(m) ==
    LET spooled == [m.form_part EXCEPT !.temp_file = Some(seek_start(spooled_file(m.temp_file)))]
    IN  IF Take(m.body_buffer, 4) = END_BODY_BYTES
        THEN [m EXCEPT !.body_buffer = <<>>, !.form_part = spooled,
                       !.form_parts = Append(m.form_parts, spooled), !.st = "ok"]
        ELSE IF Take(m.body_buffer, 2) = CRLF
             THEN [m EXCEPT !.body_buffer = Drop(m.body_buffer, 2), !.form_part = spooled,
                            !.form_parts = Append(m.form_parts, spooled),
                            !.header_buffer = <<>>, !.st = "hdr"]
             ELSE mp_err(m, "ParsingError")

\* One pass of the loop of extract_form_value, up to the boundary tail.
extract_form_value(m) ==
    LET value_end_matching_bytes == file_end_matcher(m.boundary)
        end_index == Position(m.body_buffer, value_end_matching_bytes)
    IN  IF IsSome(end_index)
        THEN LET to_copy == Take(m.body_buffer, Unwrap(end_index))
                 to_copy_bytes == IF EndsWith(to_copy, CRLF)
                                  THEN Take(to_copy, Len(to_copy) - 2)
                                  ELSE to_copy
                 m1 == IF Unwrap(end_index) > 0
                       THEN [m EXCEPT !.bytes_written = m.bytes_written + Len(to_copy_bytes),
                                      !.value_buffer = m.value_buffer \o to_copy_bytes,
                                      !.body_buffer = Drop(m.body_buffer,
                                            Unwrap(end_index) + Len(value_end_matching_bytes))]
                       ELSE m
             IN  IF Len(m1.body_buffer) < 4
                 THEN after_limit_check(m1, "val_tail", "exact", 4 - Len(m1.body_buffer))
                 ELSE after_limit_check(m1, "val_tail", "none", 0)
        ELSE LET to_copy_size == Len(m.body_buffer) - (Len(value_end_matching_bytes) + 2)
                 m1 == IF to_copy_size > 0
                       THEN [m EXCEPT !.bytes_written = m.bytes_written + to_copy_size,
                                      !.value_buffer = m.value_buffer \o Take(m.body_buffer, to_copy_size),
                                      !.body_buffer = Drop(m.body_buffer, to_copy_size)]
                       ELSE m
             IN  after_limit_check(m1, "val", "chunk", 0)

\* The boundary tail of extract_form_value taking whatever is not "--\r\n"
\* for the start of a further part.
value_tail_accepts_any(m) ==
    LET valued == [m.form_part EXCEPT !.value = Some(m.value_buffer)]
    IN  IF Take(m.body_buffer, 4) = END_BODY_BYTES
        THEN [m EXCEPT !.body_buffer = <<>>, !.form_part = valued,
                       !.form_parts = Append(m.form_parts, valued), !.st = "ok"]
        ELSE [m EXCEPT !.body_buffer = Drop(m.body_buffer, 2), !.form_part = valued,
                       !.form_parts = Append(m.form_parts, valued),
                       !.header_buffer = <<>>, !.st = "hdr"]

\* The boundary tail of extract_form_value.
value_tail(m) ==
    LET valued == [m.form_part EXCEPT !.value = Some(m.value_buffer)]
    IN  IF Take(m.body_buffer, 4) = END_BODY_BYTES
        THEN [m EXCEPT !.body_buffer = <<>>, !.form_part = valued,
                       !.form_parts = Append(m.form_parts, valued), !.st = "ok"]
        ELSE IF Take(m.body_buffer, 2) = CRLF
             THEN [m EXCEPT !.body_buffer = Drop(m.body_buffer, 2), !.form_part = valued,
                            !.form_parts = Append(m.form_parts, valued),
                            !.header_buffer = <<>>, !.st = "hdr"]
             ELSE mp_err(m, "ParsingError")

mp_step(m) ==
    CASE m.st = "start" -> parse_body_parts(m)
      [] m.st = "start_check" -> start_check(m)
      [] m.st = "hdr" -> extract_form_part_header(m)
      [] m.st = "file" -> extract_form_file_body(m)
      [] m.st = "file_tail" -> file_tail(m)
      [] m.st = "val" -> extract_form_value(m)
      [] m.st = "val_tail" -> value_tail(m)

mp_final(m) == m.st \in {"ok", "err", "panic"}

\* The parser runs until it returns or blocks in the reader.
RECURSIVE mp_run(_)
mp_run(m) == IF mp_final(m) \/ m.wait # "none" THEN m ELSE mp_run(mp_step(m))

\* What a successful reader call hands to the parser: body_buffer.extend(chunk).
mp_feed(m, chunk) == mp_run([m EXCEPT !.body_buffer = m.body_buffer \o chunk, !.wait = "none"])

\* multipart::parse without the check of the declared body size.
multipart_parse_unchecked(partial_bytes, headers, limits) ==
    LET content_type == Unwrap(extract_content_type(headers))
        multipart_boundary == extract_boundary(content_type)
        m0 == mp_new(partial_bytes, IF IsSome(multipart_boundary) THEN Unwrap(multipart_boundary) ELSE <<>>, limits)
    IN  IF ~IsSome(multipart_boundary) THEN mp_err(m0, "InvalidMultiPart") ELSE mp_run(m0)

\* multipart::parse: the checks before parse_body_parts.  The Content-Type
\* header is present whenever Request::parse_request_body gets here.
multipart_parse(partial_bytes, headers, limits) ==
    LET content_type == Unwrap(extract_content_type(headers))
        multipart_boundary == extract_boundary(content_type)
        m0 == mp_new(partial_bytes, IF IsSome(multipart_boundary) THEN Unwrap(multipart_boundary) ELSE <<>>, limits)
    IN  IF ~IsSome(multipart_boundary) THEN mp_err(m0, "InvalidMultiPart")
        ELSE IF /\ IsSome(limits.max_body_size)
                /\ IsSome(content_length(headers))
                /\ Unwrap(content_length(headers)) > Unwrap(limits.max_body_size)
             THEN mp_err(m0, "MaxBodySizeExceed")
             ELSE mp_run(m0)

\* ------------------------------------------------- parser/mod.rs: readers

\* FormDataReader::new
FormDataReader_new(boundary, cl, body_read) ==
    [boundary_end_bytes |-> start_boundary(boundary),
     content_length |-> cl,
     bytes_read |-> body_read,
     body_ended |-> IF IsSome(cl) THEN body_read >= Unwrap(cl) ELSE FALSE,
     body_buffer |-> <<>>]

\* FormDataReader::update_read_status counting the bytes and leaving
\* body_ended as it is.
update_read_status_never_ends(rd, new_chunk) ==
    [panic |-> FALSE, rd |-> [rd EXCEPT !.bytes_read = rd.bytes_read + Len(new_chunk)]]

\* FormDataReader::update_read_status: [panic, rd].  Without Content-Length
\* the tail buffer is rebuilt by slicing; a slice start past the end of the
\* buffer, or the subtraction falling below zero, aborts the thread.
update_read_status(rd, new_chunk) ==
    LET bytes_read == rd.bytes_read + Len(new_chunk)
        n == Len(rd.boundary_end_bytes)
        start_index == n - Len(new_chunk) - 1
    IN  IF IsSome(rd.content_length)
        THEN [panic |-> FALSE,
              rd |-> [rd EXCEPT !.bytes_read = bytes_read,
                                !.body_ended = @ \/ bytes_read >= Unwrap(rd.content_length)]]
        ELSE IF EndsWith(rd.body_buffer, rd.boundary_end_bytes)
             THEN [panic |-> FALSE, rd |-> [rd EXCEPT !.bytes_read = bytes_read, !.body_ended = TRUE]]
             ELSE IF Len(new_chunk) > n
                  THEN [panic |-> FALSE,
                        rd |-> [rd EXCEPT !.bytes_read = bytes_read,
                                          !.body_buffer = Slice(new_chunk, n - n, n)]]
                  ELSE IF start_index < 0 \/ start_index > Len(rd.body_buffer)
                       THEN [panic |-> TRUE, rd |-> [rd EXCEPT !.bytes_read = bytes_read]]
                       ELSE [panic |-> FALSE,
                             rd |-> [rd EXCEPT !.bytes_read = bytes_read,
                                               !.body_buffer = Drop(@, start_index) \o new_chunk]]

\* UrlEncodedReader::new
UrlEncodedReader_new(cl, bytes_read) ==
    [content_length |-> cl, bytes_read |-> bytes_read, body_ended |-> bytes_read = cl]

\* UrlEncodedReader::update_read_status
url_update_read_status(rd, new_chunk) ==
    [rd EXCEPT !.bytes_read = @ + Len(new_chunk),
               !.body_ended = @ \/ rd.bytes_read + Len(new_chunk) >= rd.content_length]

\* ------------------------------------------------------------- the inputs

\* GET /a HTTP/1.1\r\n
LINE_GET_A ==
    <<71,69,84,32,47,97,32,72,84,84,80,47,49,46,49,13,10>>
\* GET /f?q=hi HTTP/1.1\r\n
LINE_GET_F ==
    <<71,69,84,32,47,102,63,113,61,104,105,32,72,84,84,80,47,49,46,49,13,10>>
\* GET /x HTTP/1.1\r\n
LINE_GET_X ==
    <<71,69,84,32,47,120,32,72,84,84,80,47,49,46,49,13,10>>
\* POST /a HTTP/1.1\r\n
LINE_POST_A ==
    <<80,79,83,84,32,47,97,32,72,84,84,80,47,49,46,49,13,10>>
\* POST /f HTTP/1.1\r\n
LINE_POST_F ==
    <<80,79,83,84,32,47,102,32,72,84,84,80,47,49,46,49,13,10>>
\* GARBAGE\r\n
LINE_GARBAGE ==
    <<71,65,82,66,65,71,69,13,10>>
\* Connection: keep-alive\r\n
LINE_KEEP_ALIVE ==
    <<67,111,110,110,101,99,116,105,111,110,58,32,107,101,101,112,45,97,108,105,118,101,13,10>>
\* Content-Type: multipart/form-data; boundary=b\r\n
LINE_CT_MULTIPART ==
    <<67,111,110,116,101,110,116,45,84,121,112,101,58,32,109,117,108,116,105,112,97,114,116,47,102,111,114,109,45,100,97,116,97,59,32,98,111,117,110,100,97,114,121,61,98,13,10>>
\* Content-Type: application/x-www-form-urlencoded\r\n
LINE_CT_URLENCODED ==
    <<67,111,110,116,101,110,116,45,84,121,112,101,58,32,97,112,112,108,105,99,97,116,105,111,110,47,120,45,119,119,119,45,102,111,114,109,45,117,114,108,101,110,99,111,100,101,100,13,10>>
\* --b\r\nContent-Disposition: form-data; name="n"\r\n\r\nJo\r\n--b\r\nContent-Disposition: form-data; name="f"; filename="a"\r\nContent-Type: t/p\r\n\r\nhi\r\n\r\n--b--\r\n
BODY_MULTIPART ==
    <<45,45,98,13,10,67,111,110,116,101,110,116,45,68,105,115,112,111,115,105,116,105,111,110,58,32,102,111,114,109,45,100,97,116,97,59,32,110,97,109,101,61,34,110,34,13,10,13,10,74,111,13,10,45,45,98,13,10,67,111,110,116,101,110,116,45,68,105,115,112,111,115,105,116,105,111,110,58,32,102,111,114,109,45,100,97,116,97,59,32,110,97,109,101,61,34,102,34,59,32,102,105,108,101,110,97,109,101,61,34,97,34,13,10,67,111,110,116,101,110,116,45,84,121,112,101,58,32,116,47,112,13,10,13,10,104,105,13,10,13,10,45,45,98,45,45,13,10>>
\* GET /a HTTP/1.1\r\n\r\n
BODY_NOT_MULTIPART ==
    <<71,69,84,32,47,97,32,72,84,84,80,47,49,46,49,13,10,13,10>>
\* a=1&b=2
BODY_URLENCODED ==
    <<97,61,49,38,98,61,50>>
\* hello
BODY_TEXT ==
    <<104,101,108,108,111>>
\* GET /f?%61=1 HTTP/1.1\r\n
LINE_GET_ENCODED ==
    <<71,69,84,32,47,102,63,37,54,49,61,49,32,72,84,84,80,47,49,46,49,13,10>>
\* GET /f?a=b=c&x&a=d HTTP/1.1\r\n
LINE_GET_PAIRS ==
    <<71,69,84,32,47,102,63,97,61,98,61,99,38,120,38,97,61,100,32,72,84,84,80,47,49,46,49,13,10>>
\* --b\r\nContent-Disposition: form-data; name="n"\r\n\r\n\r\n--b\r\nContent-Disposition: form-data; name="m"; filename="e"\r\n\r\n\r\n--b--\r\n
BODY_EMPTY_PARTS ==
    <<45,45,98,13,10,67,111,110,116,101,110,116,45,68,105,115,112,111,115,105,116,105,111,110,58,32,102,111,114,109,45,100,97,116,97,59,32,110,97,109,101,61,34,110,34,13,10,13,10,13,10,45,45,98,13,10,67,111,110,116,101,110,116,45,68,105,115,112,111,115,105,116,105,111,110,58,32,102,111,114,109,45,100,97,116,97,59,32,110,97,109,101,61,34,109,34,59,32,102,105,108,101,110,97,109,101,61,34,101,34,13,10,13,10,13,10,45,45,98,45,45,13,10>>
\* --b\r\nContent-Disposition: form-data; name="f"; filename="a"\r\n\r\n
BODY_UPLOAD_HEADER ==
    <<45,45,98,13,10,67,111,110,116,101,110,116,45,68,105,115,112,111,115,105,116,105,111,110,58,32,102,111,114,109,45,100,97,116,97,59,32,110,97,109,101,61,34,102,34,59,32,102,105,108,101,110,97,109,101,61,34,97,34,13,10,13,10>>
\* John Doe\r\n\r\n--b--\r\n
BODY_UPLOAD_FILE ==
    <<74,111,104,110,32,68,111,101,13,10,13,10,45,45,98,45,45,13,10>>
\* Content-Length: x\r\n
LINE_BAD_LENGTH ==
    <<67,111,110,116,101,110,116,45,76,101,110,103,116,104,58,32,120,13,10>>
\* HEAD /a HTTP/1.1\r\n
LINE_HEAD_A ==
    <<72,69,65,68,32,47,97,32,72,84,84,80,47,49,46,49,13,10>>
\* delete /a HTTP/1.1\r\n
LINE_DELETE_LOWER_A ==
    <<100,101,108,101,116,101,32,47,97,32,72,84,84,80,47,49,46,49,13,10>>
\* Content-Length: 0\r\n
LINE_ZERO_LENGTH ==
    <<67,111,110,116,101,110,116,45,76,101,110,103,116,104,58,32,48,13,10>>
\* --b\r\nContent-Disposition: form-data; name="n"\r\n\r\nJo\r\n--bXY\r\n
BODY_BAD_TAIL ==
    <<45,45,98,13,10,67,111,110,116,101,110,116,45,68,105,115,112,111,115,105,116,105,111,110,58,32,102,111,114,109,45,100,97,116,97,59,32,110,97,109,101,61,34,110,34,13,10,13,10,74,111,13,10,45,45,98,88,89,13,10>>
\* --b\r\nContent-Disposition: form-data; name="f"; filename="a"\r\n\r\nhi\r\n--b\r\nContent-Disposition: form-data; name="n"\r\n\r\nJo\r\n--b--\r\n
BODY_FILE_FIRST ==
    <<45,45,98,13,10,67,111,110,116,101,110,116,45,68,105,115,112,111,115,105,116,105,111,110,58,32,102,111,114,109,45,100,97,116,97,59,32,110,97,109,101,61,34,102,34,59,32,102,105,108,101,110,97,109,101,61,34,97,34,13,10,13,10,104,105,13,10,45,45,98,13,10,67,111,110,116,101,110,116,45,68,105,115,112,111,115,105,116,105,111,110,58,32,102,111,114,109,45,100,97,116,97,59,32,110,97,109,101,61,34,110,34,13,10,13,10,74,111,13,10,45,45,98,45,45,13,10>>
\* /a
PATH_A ==
    <<47,97>>
\* /f
PATH_F ==
    <<47,102>>
\* Hello
STR_Hello ==
    <<72,101,108,108,111>>

\* format!("{}", n)
RECURSIVE Decimal(_)
Decimal(n) == IF n < 10 THEN <<48 + n>> ELSE Decimal(n \div 10) \o <<48 + (n % 10)>>

ContentLengthLine(n) == STR_Content_Length \o <<58, 32>> \o Decimal(n) \o CRLF

REQ_GET_A == LINE_GET_A \o LINE_KEEP_ALIVE \o CRLF
REQ_GET_F == LINE_GET_F \o LINE_KEEP_ALIVE \o CRLF
REQ_GET_X == LINE_GET_X \o CRLF
REQ_GARBAGE == LINE_GARBAGE \o CRLF
HEAD_POST_MULTIPART ==
    LINE_POST_F \o LINE_KEEP_ALIVE \o LINE_CT_MULTIPART
        \o ContentLengthLine(Len(BODY_MULTIPART)) \o CRLF
HEAD_POST_NOT_MULTIPART ==
    LINE_POST_F \o LINE_KEEP_ALIVE \o LINE_CT_MULTIPART
        \o ContentLengthLine(Len(BODY_NOT_MULTIPART)) \o CRLF
HEAD_POST_URLENCODED ==
    LINE_POST_F \o LINE_KEEP_ALIVE \o LINE_CT_URLENCODED
        \o ContentLengthLine(Len(BODY_URLENCODED)) \o CRLF
HEAD_POST_TEXT ==
    LINE_POST_A \o LINE_KEEP_ALIVE \o ContentLengthLine(Len(BODY_TEXT)) \o CRLF
REQ_GET_BAD_LENGTH == LINE_GET_A \o LINE_BAD_LENGTH \o CRLF
REQ_HEAD_A == LINE_HEAD_A \o LINE_KEEP_ALIVE \o CRLF
REQ_DELETE_LOWER_A == LINE_DELETE_LOWER_A \o CRLF
REQ_GET_ZERO_LENGTH == LINE_GET_A \o LINE_ZERO_LENGTH \o CRLF
REQ_GET_ENCODED == LINE_GET_ENCODED \o LINE_KEEP_ALIVE \o CRLF
REQ_GET_PAIRS == LINE_GET_PAIRS \o LINE_KEEP_ALIVE \o CRLF
HEAD_POST_EMPTY_PARTS ==
    LINE_POST_F \o LINE_KEEP_ALIVE \o LINE_CT_MULTIPART
        \o ContentLengthLine(Len(BODY_EMPTY_PARTS)) \o CRLF
HEAD_POST_UPLOAD ==
    LINE_POST_F \o LINE_KEEP_ALIVE \o LINE_CT_MULTIPART
        \o ContentLengthLine(Len(BODY_UPLOAD_HEADER) + Len(BODY_UPLOAD_FILE)) \o CRLF
HEAD_POST_BAD_TAIL ==
    LINE_POST_F \o LINE_KEEP_ALIVE \o LINE_CT_MULTIPART
        \o ContentLengthLine(Len(BODY_BAD_TAIL)) \o CRLF
HEAD_POST_FILE_FIRST ==
    LINE_POST_F \o LINE_KEEP_ALIVE \o LINE_CT_MULTIPART
        \o ContentLengthLine(Len(BODY_FILE_FIRST)) \o CRLF
\* A multipart head without Content-Length.
HEAD_POST_NO_LENGTH == LINE_POST_F \o LINE_KEEP_ALIVE \o LINE_CT_MULTIPART \o CRLF
\* Heads that declare one byte more than the decoder of the body allows.
HEAD_POST_MULTIPART_OVER ==
    LINE_POST_F \o LINE_KEEP_ALIVE \o LINE_CT_MULTIPART
        \o ContentLengthLine(MAX_BODY_SIZE + 1) \o CRLF
HEAD_POST_URLENCODED_OVER ==
    LINE_POST_F \o LINE_KEEP_ALIVE \o LINE_CT_URLENCODED
        \o ContentLengthLine(URL_MAX_BODY_SIZE + 1) \o CRLF

\* What a client sends on one connection: the writes it makes, in order.  It
\* writes the head of a request and then the body; "first" marks the write
\* that starts a request.
Bodiless(head) == <<[bytes |-> head, first |-> TRUE]>>
WithBody(head, body_bytes) ==
    <<[bytes |-> head, first |-> TRUE], [bytes |-> body_bytes, first |-> FALSE]>>
\* A further write of the body of the request under way.
BodyWrite(body_bytes) == <<[bytes |-> body_bytes, first |-> FALSE]>>

Streams ==
    {Bodiless(REQ_GET_A) \o Bodiless(REQ_GET_F),
     Bodiless(REQ_GET_X),
     Bodiless(REQ_GARBAGE) \o Bodiless(REQ_GET_A),
     WithBody(HEAD_POST_MULTIPART, BODY_MULTIPART) \o Bodiless(REQ_GET_A),
     WithBody(HEAD_POST_NOT_MULTIPART, BODY_NOT_MULTIPART) \o Bodiless(REQ_GET_A),
     WithBody(HEAD_POST_URLENCODED, BODY_URLENCODED) \o Bodiless(REQ_GET_A),
     WithBody(HEAD_POST_TEXT, BODY_TEXT) \o Bodiless(REQ_GET_A),
     Bodiless(REQ_GET_ENCODED),
     Bodiless(REQ_DELETE_LOWER_A),
     Bodiless(REQ_GET_ZERO_LENGTH),
     Bodiless(REQ_HEAD_A),
     Bodiless(REQ_GET_BAD_LENGTH),
     Bodiless(REQ_GET_PAIRS),
     WithBody(HEAD_POST_EMPTY_PARTS, BODY_EMPTY_PARTS),
     WithBody(HEAD_POST_TEXT, BODY_TEXT \o REQ_GET_A),
     WithBody(HEAD_POST_BAD_TAIL, BODY_BAD_TAIL),
     WithBody(HEAD_POST_FILE_FIRST, BODY_FILE_FIRST),
     WithBody(HEAD_POST_UPLOAD, BODY_UPLOAD_HEADER) \o BodyWrite(BODY_UPLOAD_FILE),
     WithBody(HEAD_POST_MULTIPART_OVER, BODY_MULTIPART),
     WithBody(HEAD_POST_URLENCODED_OVER, BODY_URLENCODED)}

\* The path table run_server is given: Path::new(name, view).
Paths ==
    <<[name |-> PATH_A, view |-> "view_a"],
      [name |-> PATH_F, view |-> "view_f"],
      [name |-> PATH_A, view |-> "view_a2"]>>

\* ------------------------------------------------------------- the state

VARIABLES
    input,         \* the writes the client makes on the connection
    sent,          \* how many of them it has made
    sock,          \* the bytes sent that the server has not read yet
    shut,          \* stream.shutdown(Shutdown::Both) has been called
    accept_next,   \* Context::accept_next
    pc,            \* where the worker is: "loop" (the while test of serve_client),
                   \* "extract", "handler", "body", "url", "form", "done", "panic"
    header_bytes,  \* extract_headers: the header accumulator
    request,       \* the Request of the current cycle
    dec,           \* the body decoder in progress: its reader and its locals
    calls,         \* accessor calls the handler has made in this cycle
    ret,           \* what the last accessor call returned
    wire,          \* the responses written to the socket
    served,        \* the dispatches: view (or "not_found") and the request head
    body_origin,   \* the bytes of the request that follow its header terminator
    outcome,       \* the decoder that ran on the body of the request, and what it returned
    max_size,      \* extract_headers: the limit it is called with
    form_part_limits, \* multipart::parse: the per-field limits it is called with
    part_header,   \* parse_form_part_header: the header block it is called with
    parsed_form_part, \* parse_form_part_header: the FormPart it has returned, if it has
    parked         \* the worker threads of the other connections, which the scheduler
                   \* is not running now: for each its id, its connection and its state

vars == <<input, sent, sock, shut, accept_next, pc, header_bytes, request, dec, calls, ret,
          wire, served, body_origin, outcome, max_size, form_part_limits,
          part_header, parsed_form_part, parked>>

NoRequest == NewRequest(<<>>, <<>>, EmptyMap)
NoDec == [kind |-> "none"]
NoRet == [fn |-> "none", value |-> <<>>]
NoOutcome == [decoder |-> "none", result |-> "none", err |-> "", parts |-> <<>>]

\* The state of the worker as one record: the operations below are functions
\* from this record to the record after them.
Cur ==
    [sent |-> sent, sock |-> sock, shut |-> shut, accept_next |-> accept_next, pc |-> pc,
     header_bytes |-> header_bytes, request |-> request, dec |-> dec, calls |-> calls,
     ret |-> ret, wire |-> wire, served |-> served, body_origin |-> body_origin,
     outcome |-> outcome]

Set(c) ==
    \E n \in {c} :
        /\ sent' = n.sent
        /\ sock' = n.sock
        /\ shut' = n.shut
        /\ accept_next' = n.accept_next
        /\ pc' = n.pc
        /\ header_bytes' = n.header_bytes
        /\ request' = n.request
        /\ dec' = n.dec
        /\ calls' = n.calls
        /\ ret' = n.ret
        /\ wire' = n.wire
        /\ served' = n.served
        /\ body_origin' = n.body_origin
        /\ outcome' = n.outcome
        /\ input' = input
        /\ max_size' = max_size
        /\ form_part_limits' = form_part_limits
        /\ part_header' = part_header
        /\ parsed_form_part' = parsed_form_part
        /\ parked' = parked

\* A panic unwinds the worker thread.
panic(c) == [c EXCEPT !.pc = "panic", !.dec = NoDec]

\* ----------------------------------------------------------- the socket

\* The sizes TcpStream::read may return with avail bytes queued and a buffer
\* of cap bytes.
ReadSizes(avail, cap) == {n \in 1..Min(avail, cap) : n <= MaxRead \/ n = Min(avail, cap)}

\* The responses the client has received in full.
flushed(wire_) == Cardinality({i \in DOMAIN wire_ : wire_[i].flushed})

\* The client does not pipeline: it starts a request when every request
\* before it is answered, and writes the body right after the head.
requests_sent(c) == Cardinality({i \in 1..c.sent : input[i].first})
can_send(c) ==
    /\ c.sent < Len(input)
    /\ ~c.shut
    /\ input[c.sent + 1].first => flushed(c.wire) >= requests_sent(c)

\* The bytes of the request under way that the client has still to write.
RECURSIVE unsent_from(_)
unsent_from(i) ==
    IF i > Len(input) \/ input[i].first THEN 0
    ELSE Len(input[i].bytes) + unsent_from(i + 1)
unsent(c) == unsent_from(c.sent + 1)

\* TcpStream::read: the set of [ok, n] it may return.  With nothing queued
\* the read blocks while the client has a request to send; when the client
\* has gone it returns 0 bytes or an error.
stream_read(c, cap) ==
    IF c.shut THEN {[ok |-> TRUE, n |-> 0]}
    ELSE IF c.sock = <<>>
    THEN IF can_send(c) THEN {} ELSE {[ok |-> TRUE, n |-> 0], [ok |-> FALSE, n |-> 0]}
    ELSE {[ok |-> TRUE, n |-> k] : k \in ReadSizes(Len(c.sock), cap)}

\* TcpStream::read_exact(size): it fails, having taken what there was, when
\* the client goes before size bytes have come.
stream_read_exact(c, size) ==
    IF ~c.shut /\ Len(c.sock) >= size
    THEN [ok |-> TRUE, bytes |-> Take(c.sock, size), c |-> [c EXCEPT !.sock = Drop(@, size)]]
    ELSE [ok |-> FALSE, bytes |-> <<>>, c |-> [c EXCEPT !.sock = <<>>]]

\* ------------------------------------------------------ response/mod.rs

\* What the writes of write_http may meet: all succeed, write_all of the
\* head fails, or the flush fails.
WriteOutcomes == {"ok", "write_failed", "flush_failed"}

\* write_http writing the content whatever the method of the request.
write_http_with_body(c, status, fixed_content, w) ==
    LET should_close == should_close_connection(c.request)
        html == MapInsert(EmptyMap, STR_Content_Type, <<STR_text_html>>)
        sized == MapInsert(html, STR_Content_Length, <<Decimal(Len(fixed_content))>>)
        headers == IF ~should_close
                   THEN MapInsert(sized, STR_Connection, <<STR_keep_alive>>)
                   ELSE sized
        written == [status |-> status, headers |-> headers,
                    body |-> fixed_content,
                    flushed |-> w = "ok"]
    IN  IF w = "write_failed"
        THEN [c EXCEPT !.accept_next = FALSE]
        ELSE LET c1 == [c EXCEPT !.wire = Append(@, written),
                                 !.accept_next = IF w = "flush_failed" THEN FALSE ELSE @]
             IN  IF should_close
                 THEN [c1 EXCEPT !.shut = TRUE, !.accept_next = FALSE]
                 ELSE c1

\* Response::html(status, text) followed by Response::send, that is
\* write_http: the response as written, the shutdown and dont_wait.
write_http(c, status, fixed_content, w) ==
    LET should_close == should_close_connection(c.request)
        html == MapInsert(EmptyMap, STR_Content_Type, <<STR_text_html>>)
        sized == MapInsert(html, STR_Content_Length, <<Decimal(Len(fixed_content))>>)
        headers == IF ~should_close
                   THEN MapInsert(sized, STR_Connection, <<STR_keep_alive>>)
                   ELSE sized
        written == [status |-> status, headers |-> headers,
                    body |-> IF c.request.method # STR_HEAD THEN fixed_content ELSE <<>>,
                    flushed |-> w = "ok"]
    IN  IF w = "write_failed"
        THEN [c EXCEPT !.accept_next = FALSE]
        ELSE LET c1 == [c EXCEPT !.wire = Append(@, written),
                                 !.accept_next = IF w = "flush_failed" THEN FALSE ELSE @]
             IN  IF should_close
                 THEN [c1 EXCEPT !.shut = TRUE, !.accept_next = FALSE]
                 ELSE c1

\* Status::status_text for the codes the model sends.
status_text(status_code) ==
    IF status_code = 200 THEN Some(<<79,75>>)  \* OK
    ELSE IF status_code = 404 THEN Some(<<78,111,116,32,70,111,117,110,100>>)  \* Not Found
    ELSE None

\* The lines "name: value\r\n" of the header names in order, one per value.
RECURSIVE header_lines_of(_, _)
header_lines_of(headers, order) ==
    IF order = <<>> THEN <<>>
    ELSE LET values == headers[order[1]]
             RECURSIVE lines(_)
             lines(i) == IF i > Len(values) THEN <<>>
                         ELSE order[1] \o <<58, 32>> \o values[i] \o CRLF \o lines(i + 1)
         IN  lines(1) \o header_lines_of(headers, Drop(order, 1))

\* The orders in which headers.keys() may yield the names of a HashMap.
key_orders(headers) ==
    {order \in [1..Cardinality(DOMAIN headers) -> DOMAIN headers] :
        \A i, j \in DOMAIN order : i # j => order[i] # order[j]}

\* Response::prepare_raw_headers, with the order of headers.keys()
prepare_raw_headers(status, headers, order) ==
    LET text == status_text(status)
    IN  <<72,84,84,80,47,49,46,49,32>> \o Decimal(status) \o <<32>>
            \o (IF IsSome(text) THEN Unwrap(text) ELSE <<67,117,115,116,111,109,32,83,116,97,116,117,115>>)
            \o CRLF \o header_lines_of(headers, order) \o CRLF

\* The bytes write_http hands to the BufWriter for a response of the wire.
response_bytes(written, order) ==
    prepare_raw_headers(written.status, written.headers, order) \o written.body

\* --------------------------------------------------------------- lib.rs

\* The limit decode_request passes to extract_headers.
DECODE_MAX_HEADER_SIZE == 1048576

\* The loop of decode_request over the path table: the last entry whose
\* name equals the pathname.
matched_view(pathname) ==
    LET hits == {i \in 1..Len(Paths) : Paths[i].name = pathname}
    IN  IF hits = {} THEN None ELSE Some(Paths[MaxOf(hits)].view)

\* A rejection that leaves the stream open.
reject_request_line_keeps_open(c) == [c EXCEPT !.accept_next = FALSE, !.pc = "loop"]

\* decode_request when the request line does not parse: accept_next is
\* cleared, the stream is shut down, decode_request returns.
reject_request_line(c) == [c EXCEPT !.accept_next = FALSE, !.shut = TRUE, !.pc = "loop"]

\* decode_request after extract_headers has found the terminator: the header
\* lines, the request line, Request::new, setup, the dispatch.  w is the
\* outcome of the writes of serve_not_found.
decode_request(c, raw_request_headers, partial_body_bytes, w) ==
    LET header_lines == Split(raw_request_headers, CRLF)
        header_start == header_lines[1]
        headers == collect_headers(Drop(header_lines, 1), EmptyMap)
        request_info == parse_request_method_header(header_start)
        c0 == [c EXCEPT !.header_bytes = raw_request_headers]
    IN  IF \E i \in 1..Len(raw_request_headers) : raw_request_headers[i] >= 128
        THEN panic(c0)
        ELSE IF ~IsSome(request_info)
        THEN reject_request_line(c0)
        ELSE LET method == Unwrap(request_info)[1]
                 raw_path == Unwrap(request_info)[2]
             IN  IF query_params_from_raw(raw_path).panic \/ content_length_panics(headers)
                 THEN panic(c0)
                 ELSE LET req == set_partial_body_bytes(
                                    setup(NewRequest(method, raw_path, headers)),
                                    partial_body_bytes)
                          view == matched_view(req.pathname)
                          c1 == [c0 EXCEPT
                                    !.request = req,
                                    !.calls = 0,
                                    !.ret = NoRet,
                                    !.outcome = NoOutcome,
                                    !.body_origin = Len(partial_body_bytes) + Len(c.sock) + unsent(c),
                                    !.served = Append(@,
                                        [view |-> IF IsSome(view) THEN Unwrap(view) ELSE "not_found",
                                         method |-> method, raw_path |-> raw_path,
                                         headers |-> headers])]
                      IN  IF IsSome(view)
                          THEN [c1 EXCEPT !.pc = "handler"]
                          ELSE [write_http(c1, 404, STR_404_NOT_FOUND, w) EXCEPT !.pc = "loop"]

\* A split that leaves the last byte of the terminator in the partial body.
split_at_terminator_short(header_bytes_, buffer, header_end_index, read_size) ==
    [header |-> header_bytes_ \o Take(buffer, header_end_index),
     partial_body |-> Slice(buffer, header_end_index + 3, read_size)]

\* extract_headers when the buffer holds the terminator at header_end_index:
\* what goes to the header bytes and what to the partial body.
split_at_terminator(header_bytes_, buffer, header_end_index, read_size) ==
    [header |-> header_bytes_ \o Take(buffer, header_end_index),
     partial_body |-> Slice(buffer, header_end_index + 4, read_size)]

\* A pass of extract_headers whose failure leaves accept_next as it was.
extract_headers_pass_keeps_accepting(c, r, w) ==
    IF Len(c.header_bytes) > max_size \/ ~r.ok \/ r.n = 0
    THEN [c EXCEPT !.pc = "loop"]
    ELSE LET buffer == Take(c.sock, r.n)
             rest == [c EXCEPT !.sock = Drop(c.sock, r.n)]
             header_end_index == contains_full_headers(buffer)
         IN  IF IsSome(header_end_index)
             THEN LET parts == split_at_terminator(c.header_bytes, buffer,
                                                   Unwrap(header_end_index), r.n)
                  IN  decode_request(rest, parts.header, parts.partial_body, w)
             ELSE [rest EXCEPT !.header_bytes = c.header_bytes \o buffer]

\* One pass of the loop of extract_headers: r is the outcome of stream.read.
extract_headers_pass(c, r, w) ==
    IF Len(c.header_bytes) > max_size \/ ~r.ok \/ r.n = 0
    THEN [c EXCEPT !.accept_next = FALSE, !.pc = "loop"]
    ELSE LET buffer == Take(c.sock, r.n)
             rest == [c EXCEPT !.sock = Drop(c.sock, r.n)]
             header_end_index == contains_full_headers(buffer)
         IN  IF IsSome(header_end_index)
             THEN LET parts == split_at_terminator(c.header_bytes, buffer,
                                                   Unwrap(header_end_index), r.n)
                  IN  decode_request(rest, parts.header, parts.partial_body, w)
             ELSE [rest EXCEPT !.header_bytes = c.header_bytes \o buffer]

\* ------------------------------------------- request/mod.rs: the accessors

\* partial.clone() followed by partial.clear()
take_partial_body(req) == Unwrap(req.partial_body)
clear_partial_body(req) == [req EXCEPT !.partial_body = Some(<<>>)]

\* How an accessor returns to the handler.
returns(c, fn, value) == [c EXCEPT !.pc = "handler", !.dec = NoDec, !.ret = [fn |-> fn, value |-> value]]

\* body::parse from the top of its loop to its return or to reader.get_chunk;
\* pass is the parity of the passes the loop has made.
body_parse_pass(d) ==
    LET written == d.temp_file \o d.body_buffer
    IN  IF d.body_read >= d.content_length
        THEN [d EXCEPT !.temp_file = written, !.st = "ok"]
        ELSE [d EXCEPT !.temp_file = written, !.body_buffer = <<>>, !.st = "wait",
                       !.pass = 1 - @]

\* Request::body after body::parse has returned.
body_settle(c, d) ==
    LET c1 == [c EXCEPT !.request.body_read = TRUE,
                        !.outcome = [decoder |-> "body",
                                     result |-> IF d.st = "ok" THEN "ok" ELSE "err",
                                     err |-> d.err, parts |-> <<>>]]
    IN  IF d.st = "ok"
        THEN returns([c1 EXCEPT !.request.body_parsed = TRUE], "body",
                     Some(seek_start(spooled_file(d.temp_file))))
        ELSE returns(c1, "body", None)

body_continue(c, d) == IF d.st = "wait" THEN [c EXCEPT !.pc = "body", !.dec = d] ELSE body_settle(c, d)

\* Request::body up to the first reader.get_chunk
body(c) ==
    LET cl == content_length(c.request.headers)
        partial_bytes == take_partial_body(c.request)
        d == [kind |-> "body", st |-> "wait", err |-> "",
              rd |-> [content_length |-> Unwrap(cl), bytes_read |-> Len(partial_bytes),
                      max_body_size |-> BODY_MAX_BODY_SIZE],
              body_buffer |-> partial_bytes, body_read |-> Len(partial_bytes),
              content_length |-> Unwrap(cl), temp_file |-> <<>>, pass |-> 0]
    IN  IF c.request.body_read \/ ~IsSome(cl)
        THEN returns(c, "body", None)
        ELSE body_continue([c EXCEPT !.request = clear_partial_body(@)], body_parse_pass(d))

\* BodyReader::get_chunk: the error it returns without reading, if any.
BodyReader_refuses(rd) ==
    IF rd.bytes_read >= rd.content_length THEN "MaxBodySizeExceed"
    ELSE IF rd.bytes_read >= rd.max_body_size THEN "BodyAlreadyRead"
    ELSE ""

\* BodyReader::get_chunk with the outcome r of stream.read, and body::parse
\* up to the next get_chunk.
body_get_chunk(c, r) ==
    LET d == c.dec
        chunk == Take(c.sock, r.n)
        fed == [d EXCEPT !.rd.bytes_read = @ + r.n,
                         !.body_read = @ + r.n,
                         !.body_buffer = @ \o chunk]
    IN  IF BodyReader_refuses(d.rd) # ""
        THEN body_settle(c, [d EXCEPT !.st = "err", !.err = BodyReader_refuses(d.rd)])
        ELSE IF ~r.ok
        THEN body_settle(c, [d EXCEPT !.st = "err", !.err = "Others"])
        ELSE body_continue([c EXCEPT !.sock = Drop(@, r.n)], body_parse_pass(fed))

\* Request::multipart_form_data_and_files: acc is (form_data, form_files).
RECURSIVE multipart_form_data_and_files(_, _)
multipart_form_data_and_files(form_parts, acc) ==
    IF form_parts = <<>> THEN acc
    ELSE LET form_part == form_parts[1]
             next ==
                IF ~IsSome(form_part.name) THEN acc
                ELSE IF IsSome(form_part.value)
                THEN [acc EXCEPT !.form_data =
                        MapPush(@, Unwrap(form_part.name), Unwrap(form_part.value))]
                ELSE IF IsSome(form_part.filename)
                THEN [acc EXCEPT !.form_files =
                        MapPush(@, Unwrap(form_part.name),
                                [filename |-> Unwrap(form_part.filename),
                                 temp_file |-> Unwrap(form_part.temp_file)])]
                ELSE acc
         IN  multipart_form_data_and_files(Drop(form_parts, 1), next)

\* The tail of Request::form_data and Request::files: the borrowed map.
accessor_return(c, fn) ==
    returns(c, fn, IF fn = "form_data" THEN c.request.form_data ELSE c.request.form_files)

\* Request::parse_request_body storing the parts that were parsed before
\* multipart_form_data returned an error.
form_settle_exposes_partial(c, d) ==
    LET maps == multipart_form_data_and_files(d.m.form_parts,
                    [form_data |-> EmptyMap, form_files |-> EmptyMap])
        c1 == [c EXCEPT !.request.body_read = TRUE,
                        !.request.body_parsed = TRUE,
                        !.outcome = [decoder |-> "multipart",
                                     result |-> IF d.m.st = "ok" THEN "ok" ELSE "err",
                                     err |-> d.m.err, err_field |-> d.m.err_field,
                                     err_text |-> d.m.err_text,
                                     parts |-> IF d.m.st = "ok" THEN d.m.form_parts ELSE <<>>]]
    IN  IF d.m.st = "panic" THEN panic(c)
        ELSE accessor_return([c1 EXCEPT !.request.form_data = maps.form_data,
                                        !.request.form_files = maps.form_files], d.fn)

\* Request::parse_request_body after multipart_form_data has returned.
form_settle(c, d) ==
    LET maps == multipart_form_data_and_files(d.m.form_parts,
                    [form_data |-> EmptyMap, form_files |-> EmptyMap])
        c1 == [c EXCEPT !.request.body_read = TRUE,
                        !.request.body_parsed = TRUE,
                        !.outcome = [decoder |-> "multipart",
                                     result |-> IF d.m.st = "ok" THEN "ok" ELSE "err",
                                     err |-> d.m.err, err_field |-> d.m.err_field,
                                     err_text |-> d.m.err_text,
                                     parts |-> IF d.m.st = "ok" THEN d.m.form_parts ELSE <<>>]]
    IN  IF d.m.st = "panic" THEN panic(c)
        ELSE IF d.m.st = "ok"
        THEN accessor_return([c1 EXCEPT !.request.form_data = maps.form_data,
                                        !.request.form_files = maps.form_files], d.fn)
        ELSE accessor_return(c1, d.fn)

form_continue(c, d) == IF mp_final(d.m) THEN form_settle(c, d) ELSE [c EXCEPT !.pc = "form", !.dec = d]

\* Request::multipart_form_data up to the first call of the reader.
multipart_form_data(c, fn, content_type, cl) ==
    LET boundary == extract_boundary(content_type)
        partial_body == take_partial_body(c.request)
        c1 == [c EXCEPT !.request = clear_partial_body(@)]
        reader == FormDataReader_new(Unwrap(boundary), cl, Len(partial_body))
    IN  IF extract_boundary_panics(content_type) THEN panic(c)
        ELSE IF ~IsSome(boundary)
        THEN form_settle(c, [kind |-> "form", fn |-> fn, rd |-> <<>>,
                             m |-> mp_err(mp_new(<<>>, <<>>, RequestLimits), "Others")])
        ELSE form_continue(c1, [kind |-> "form", fn |-> fn, rd |-> reader,
                                m |-> multipart_parse(partial_body, c.request.headers,
                                        [RequestLimits EXCEPT
                                            !.form_part_limits = form_part_limits])])

\* The messages of the reader's MultipartFormDataError::Others.
TEXT_UNABLE_TO_READ == "Unable to read stream. May be client disconnected."

TEXT_READ_SIZE_ZERO == "Bytes read size is 0. Probably client disconnected."

\* FormDataReader::get_chunk leaving in the socket the bytes it hands to the
\* parser.
form_get_chunk_peeks(c, r) ==
    LET d == c.dec
        chunk == Take(c.sock, r.n)
        u == update_read_status(d.rd, chunk)
    IN  IF d.rd.body_ended
        THEN form_settle(c, [d EXCEPT !.m = mp_err(@, "BodyReadEnd")])
        ELSE IF ~r.ok
        THEN form_settle(c, [d EXCEPT !.m = mp_err_others(@, TEXT_UNABLE_TO_READ)])
        ELSE IF r.n = 0
        THEN form_settle(c, [d EXCEPT !.m = mp_err_others(@, TEXT_READ_SIZE_ZERO)])
        ELSE IF u.panic THEN panic(c)
        ELSE form_continue(c, [d EXCEPT !.rd = u.rd, !.m = mp_feed(@, chunk)])

\* FormDataReader::get_chunk with the outcome r of stream.read, and the
\* parser up to its next call of the reader.
form_get_chunk(c, r) ==
    LET d == c.dec
        chunk == Take(c.sock, r.n)
        u == update_read_status(d.rd, chunk)
    IN  IF d.rd.body_ended
        THEN form_settle(c, [d EXCEPT !.m = mp_err(@, "BodyReadEnd")])
        ELSE IF ~r.ok
        THEN form_settle(c, [d EXCEPT !.m = mp_err_others(@, TEXT_UNABLE_TO_READ)])
        ELSE IF r.n = 0
        THEN form_settle(c, [d EXCEPT !.m = mp_err_others(@, TEXT_READ_SIZE_ZERO)])
        ELSE IF u.panic THEN panic([c EXCEPT !.sock = Drop(@, r.n)])
        ELSE form_continue([c EXCEPT !.sock = Drop(@, r.n)],
                           [d EXCEPT !.rd = u.rd, !.m = mp_feed(@, chunk)])

\* FormDataReader::get_exact(need), and the parser up to its next call of
\* the reader.
form_get_exact(c) ==
    LET d == c.dec
        x == stream_read_exact(c, d.m.need)
        u == update_read_status(d.rd, x.bytes)
    IN  IF d.rd.body_ended
        THEN form_settle(c, [d EXCEPT !.m = mp_err(@, "BodyReadEnd")])
        ELSE IF ~x.ok
        THEN form_settle(x.c, [d EXCEPT !.m = mp_err_others(@, TEXT_UNABLE_TO_READ)])
        ELSE IF u.panic THEN panic(x.c)
        ELSE form_continue(x.c, [d EXCEPT !.rd = u.rd, !.m = mp_feed(@, x.bytes)])

\* url_encoded::parse at the test of its loop: bytes_read is never updated.
url_parse_pass(d) ==
    IF d.content_length > d.bytes_read
    THEN [d EXCEPT !.st = "wait"]
    ELSE [d EXCEPT !.st = "ok"]

\* Request::parse_request_body after parse_url_encoded has returned.
url_settle(c, d) ==
    LET form_values == parse_url_encoded(d.body_buffer)
        c1 == [c EXCEPT !.request.body_read = TRUE,
                        !.outcome = [decoder |-> "url_encoded",
                                     result |-> IF d.st = "ok" THEN "ok" ELSE "err",
                                     err |-> d.err, parts |-> <<>>]]
    IN  IF d.st = "ok"
        THEN IF form_values.panic THEN panic(c)
             ELSE accessor_return([c1 EXCEPT !.request.body_parsed = TRUE,
                                             !.request.form_data = form_values.params], d.fn)
        ELSE accessor_return(c1, d.fn)

url_continue(c, d) == IF d.st = "wait" THEN [c EXCEPT !.pc = "url", !.dec = d] ELSE url_settle(c, d)

\* Request::parse_url_encoded and url_encoded::parse up to the first
\* reader.get_chunk.
request_parse_url_encoded(c, fn, cl) ==
    LET partial_bytes == take_partial_body(c.request)
        c1 == [c EXCEPT !.request = clear_partial_body(@)]
        d == [kind |-> "url", fn |-> fn, st |-> "wait", err |-> "",
              rd |-> UrlEncodedReader_new(cl, Len(partial_bytes)),
              body_buffer |-> partial_bytes, content_length |-> cl,
              bytes_read |-> Len(partial_bytes)]
    IN  IF cl > URL_MAX_BODY_SIZE
        THEN url_settle(c1, [d EXCEPT !.st = "err", !.err = "MaxBodySizeExceed"])
        ELSE url_continue(c1, url_parse_pass(d))

\* UrlEncodedReader::get_chunk with the outcome r of stream.read, and
\* url_encoded::parse up to the next get_chunk.
url_get_chunk(c, r) ==
    LET d == c.dec
        chunk == Take(c.sock, r.n)
    IN  IF d.rd.body_ended
        THEN url_settle(c, [d EXCEPT !.st = "err", !.err = "BodyReadEnd"])
        ELSE IF ~r.ok \/ r.n = 0
        THEN url_settle(c, [d EXCEPT !.st = "err", !.err = "Others"])
        ELSE url_continue([c EXCEPT !.sock = Drop(@, r.n)],
                          url_parse_pass([d EXCEPT !.rd = url_update_read_status(@, chunk),
                                                   !.body_buffer = @ \o chunk]))

\* Request::parse_request_body, called by fn, up to the first call of a reader.
parse_request_body(c, fn) ==
    LET content_type == extract_content_type(c.request.headers)
        content_type_value == Trim(Unwrap(content_type))
        cl == content_length(c.request.headers)
    IN  IF ~IsSome(content_type) THEN accessor_return(c, fn)
        ELSE IF StartsWith(content_type_value, STR_multipart_form_data)
        THEN multipart_form_data(c, fn, content_type_value, cl)
        ELSE IF StartsWith(content_type_value, STR_urlencoded)
        THEN IF ~IsSome(cl) THEN accessor_return(c, fn)
             ELSE request_parse_url_encoded(c, fn, Unwrap(cl))
        ELSE accessor_return(c, fn)

\* Request::form_data without the test of body_read.
form_data_reparses(c) == parse_request_body(c, "form_data")

\* Request::form_data
form_data(c) == IF ~c.request.body_read THEN parse_request_body(c, "form_data")
                ELSE accessor_return(c, "form_data")

\* Request::files
files(c) == IF ~c.request.body_read THEN parse_request_body(c, "files")
            ELSE accessor_return(c, "files")

\* A send that leaves accept_next set whatever write_http has done.
send_keeps_accepting(c, status, fixed_content, w) ==
    IF IsSome(status)
    THEN [write_http(c, Unwrap(status), fixed_content, w) EXCEPT !.accept_next = TRUE]
    ELSE c

\* Response::send: html(status, text) has run when status is set.
send(c, status, fixed_content, w) ==
    IF IsSome(status) THEN write_http(c, Unwrap(status), fixed_content, w) ELSE c

\* ------------------------------------------------------------ the actions

Init ==
    /\ input \in Streams
    /\ sent = 0
    /\ sock = <<>>
    /\ shut = FALSE
    /\ accept_next = TRUE
    /\ pc = "loop"
    /\ header_bytes = <<>>
    /\ request = NoRequest
    /\ dec = NoDec
    /\ calls = 0
    /\ ret = NoRet
    /\ wire = <<>>
    /\ served = <<>>
    /\ body_origin = 0
    /\ outcome = NoOutcome
    /\ max_size = DECODE_MAX_HEADER_SIZE
    /\ form_part_limits = EmptyMap
    /\ part_header = <<>>
    /\ parsed_form_part = None
    /\ parked = <<>>

\* The read guards the workers in ws hold on the path table: decode_request
\* takes one before the loop over the table and holds it until the handler
\* has returned.
read_guards(ws) ==
    Cardinality({i \in DOMAIN ws : ws[i].state.pc \in {"handler", "body", "url", "form"}})

\* A lock that one guard of any kind keeps every other thread out of.
paths_read_exclusive(readers, writers) == readers = 0 /\ writers = 0

\* paths.read() on the RwLock of the path table does not wait for the read
\* guards of other threads, only for a write guard.
paths_read_granted(readers, writers) == writers = 0

\* A reader call that returns before it touches the stream reads nothing.
NoRead == [ok |-> TRUE, n |-> 0]
reads(c, will_read, cap) == IF will_read THEN stream_read(c, cap) ELSE {NoRead}

\* The client makes its next write.  The head of a request comes while the
\* worker is in extract_headers: the test of the loop does not look at the
\* socket, so a head that comes before it is one that comes after it.
ClientSend ==
    /\ pc \notin {"done", "panic"}
    /\ can_send(Cur)
    /\ input[sent + 1].first => pc = "extract"
    /\ Set([Cur EXCEPT !.sent = @ + 1, !.sock = @ \o input[sent + 1].bytes])

\* serve_client: the test of the while loop, and the entry of decode_request
\* and extract_headers.
serve_client ==
    /\ pc = "loop"
    /\ Set(IF accept_next
           THEN [Cur EXCEPT !.pc = "extract", !.header_bytes = <<>>]
           ELSE [Cur EXCEPT !.pc = "done"])

\* extract_headers: one pass of its loop; the pass that finds the
\* terminator goes on through decode_request to the handler or the 404.
extract_headers ==
    /\ pc = "extract"
    /\ \E r \in reads(Cur, Len(header_bytes) <= max_size, 1024), w \in WriteOutcomes :
            \E n \in {extract_headers_pass(Cur, r, w)} :
                /\ Len(n.served) > Len(served) => paths_read_granted(read_guards(parked), 0)
                /\ Set(n)

\* The handler calls request.body().
HandlerBody ==
    /\ pc = "handler"
    /\ calls < MaxCalls
    /\ Set(body([Cur EXCEPT !.calls = @ + 1]))

\* The handler calls request.form_data().
HandlerFormData ==
    /\ pc = "handler"
    /\ calls < MaxCalls
    /\ Set(form_data([Cur EXCEPT !.calls = @ + 1]))

\* The handler calls request.files().
HandlerFiles ==
    /\ pc = "handler"
    /\ calls < MaxCalls
    /\ Set(files([Cur EXCEPT !.calls = @ + 1]))

\* The handler calls response.send(), after response.html(200, "Hello") or
\* on the response as it was given, and returns.
HandlerSend ==
    /\ pc = "handler"
    /\ \E status \in {None, Some(200)}, w \in WriteOutcomes :
            Set([send(Cur, status, STR_Hello, w) EXCEPT !.pc = "loop"])

\* The handler returns without calling send.
HandlerReturn ==
    /\ pc = "handler"
    /\ Set([Cur EXCEPT !.pc = "loop"])

\* body::parse blocked in BodyReader::get_chunk
BodyGetChunk ==
    /\ pc = "body"
    /\ \E r \in reads(Cur, BodyReader_refuses(dec.rd) = "", 1024) : Set(body_get_chunk(Cur, r))

\* url_encoded::parse blocked in UrlEncodedReader::get_chunk
UrlGetChunk ==
    /\ pc = "url"
    /\ \E r \in reads(Cur, ~dec.rd.body_ended, 1024) : Set(url_get_chunk(Cur, r))

\* multipart::parse blocked in FormDataReader::get_chunk
FormGetChunk ==
    /\ pc = "form"
    /\ dec.m.wait = "chunk"
    /\ \E r \in reads(Cur, ~dec.rd.body_ended, 8192) : Set(form_get_chunk(Cur, r))

\* multipart::parse blocked in FormDataReader::get_exact; read_exact waits
\* for the bytes while the client may still send them.
FormGetExact ==
    /\ pc = "form"
    /\ dec.m.wait = "exact"
    /\ dec.rd.body_ended \/ shut \/ Len(sock) >= dec.m.need \/ ~can_send(Cur)
    /\ Set(form_get_exact(Cur))

Next ==
    \/ ClientSend
    \/ serve_client
    \/ extract_headers
    \/ HandlerBody
    \/ HandlerFormData
    \/ HandlerFiles
    \/ HandlerSend
    \/ HandlerReturn
    \/ BodyGetChunk
    \/ UrlGetChunk
    \/ FormGetChunk
    \/ FormGetExact

Spec == Init /\ [][Next]_vars

\* extract_headers on its own: the caller gives it a stream and a limit, and
\* takes what it returns.
InitHeaders ==
    /\ input \in Streams
    /\ sent = 0
    /\ sock = <<>>
    /\ shut = FALSE
    /\ accept_next = TRUE
    /\ pc = "loop"
    /\ header_bytes = <<>>
    /\ request = NoRequest
    /\ dec = NoDec
    /\ calls = 0
    /\ ret = NoRet
    /\ wire = <<>>
    /\ served = <<>>
    /\ body_origin = 0
    /\ outcome = NoOutcome
    /\ max_size \in 1..MaxHeaderLimit
    /\ form_part_limits = EmptyMap
    /\ part_header = <<>>
    /\ parsed_form_part = None
    /\ parked = <<>>

NextHeaders ==
    \/ ClientSend
    \/ serve_client
    \/ extract_headers

SpecHeaders == InitHeaders /\ [][NextHeaders]_vars

\* ---------------------------------------------------------- the properties

\* The request carried Connection: keep-alive.
KeepAlive == STR_Connection \in DOMAIN request.headers
             /\ request.headers[STR_Connection][1] = STR_keep_alive

\* The bytes of the declared body of the request that the worker has not
\* read from the socket: the declared body is the first Content-Length
\* bytes after the header terminator, and the worker has read what is
\* neither queued in the socket nor still to be written by the client.
DeclaredBody ==
    IF STR_Content_Length \in DOMAIN request.headers
    THEN Min(Unwrap(content_length(request.headers)), body_origin)
    ELSE 0
BodyBytesLeft == Max(0, DeclaredBody - (body_origin - (Len(sock) + unsent(Cur))))

\* The worker goes from the test of the loop into a further extract_headers.
StartsNextRequest == pc = "loop" /\ pc' = "extract" /\ Len(served) > 0

\* Every request that was dispatched got a response, written in full.
AllAnswered == Len(wire) = Len(served) /\ \A i \in 1..Len(wire) : wire[i].flushed

\* C1: the driver starts reading a further request only if the previous
\* request carried Connection: keep-alive and no byte of its declared body
\* is still unread when the next header extraction begins.  It is stated
\* for the connections on which every request was answered.
C1_NextOnlyAfterKeepAliveAndBodyRead ==
    [][(StartsNextRequest /\ AllAnswered) => (KeepAlive /\ BodyBytesLeft = 0)]_vars

\* C2: while a request is with its handler, body_read = true implies that no
\* byte of the declared body of the request is unread, also after an accessor
\* whose decoder returned an error.
C2_BodyReadMeansNothingLeft ==
    (pc = "handler" /\ request.body_read) => BodyBytesLeft = 0

\* C3: body_parsed = true implies that a decoder ran on the body and
\* returned success; it is never true after a decoder returned an error.
C3_BodyParsedMeansDecoded ==
    (pc = "handler" /\ request.body_parsed) => outcome.result = "ok"

\* The connection whose first request is the multipart POST.
MultipartStream == WithBody(HEAD_POST_MULTIPART, BODY_MULTIPART) \o Bodiless(REQ_GET_A)

\* multipart::parse has returned to the handler of the multipart POST.
MultipartDecoded ==
    /\ input = MultipartStream
    /\ Len(served) = 1
    /\ pc = "handler"
    /\ outcome.decoder = "multipart"

\* C4: however the multipart body is divided between the partial body and
\* the chunks of the reader, parse returns the list of FormParts it returns
\* when the whole body is supplied at once.
C4_ChunkingInvariance ==
    MultipartDecoded =>
        LET whole == multipart_parse(BODY_MULTIPART, request.headers, RequestLimits)
        IN  /\ whole.st = "ok"
            /\ outcome.result = "ok"
            /\ outcome.parts = whole.form_parts

\* C5: for the body with one value part followed by one file part, parse
\* returns two FormParts in source order, the value part with value set and
\* temp_file absent, the file part with temp_file set and value absent.
C5_PartsInOrder ==
    MultipartDecoded =>
        /\ outcome.result = "ok"
        /\ Len(outcome.parts) = 2
        /\ IsSome(outcome.parts[1].value) /\ ~IsSome(outcome.parts[1].temp_file)
        /\ IsSome(outcome.parts[2].temp_file) /\ ~IsSome(outcome.parts[2].value)

\* The limit errors and the protocol errors of the decoders.
LimitOrProtocolErrors ==
    {"MaxBodySizeExceed", "MaxFieldSizeExceed", "HeaderSizeExceed", "InvalidMultiPart",
     "ParsingError"}

\* C6: after the decoding of a request body failed with a limit error or a
\* protocol error, the driver reads no further request on the connection,
\* keep-alive or not.  It is stated for the connections on which every
\* request was answered.
C6_DecodeErrorEndsConnection ==
    [][(StartsNextRequest /\ AllAnswered) =>
        ~(outcome.result = "err" /\ outcome.err \in LimitOrProtocolErrors)]_vars

\* C7: the driver starts reading another request only if every request it
\* dispatched was answered: a handler that returns without sending a
\* response stops the loop.
C7_NoSendStopsLoop ==
    [][StartsNextRequest => Len(wire) = Len(served)]_vars

\* The bytes the step takes from the socket.
ReadChunk == Take(sock, Len(sock) - Len(sock'))

\* The index of the first terminator in a chunk that holds one.
HasTerminator(chunk) == \E k \in 0..(Len(chunk) - 4) : SubSeq(chunk, k + 1, k + 4) = CRLFCRLF
FirstTerminator(chunk) ==
    CHOOSE k \in 0..(Len(chunk) - 4) :
        /\ SubSeq(chunk, k + 1, k + 4) = CRLFCRLF
        /\ \A j \in 0..(k - 1) : SubSeq(chunk, j + 1, j + 4) # CRLFCRLF

\* An extract_headers step that reads bytes.
ExtractReads == pc = "extract" /\ Len(sock') < Len(sock)

\* A line of the form <METHOD> <RAW-PATH> <VERSION>: three pieces that are
\* not empty, with a space after the first and one before the last.
IsRequestLine(line) ==
    \E i, j \in 2..(Len(line) - 1) : i + 1 < j /\ line[i] = 32 /\ line[j] = 32

\* C8: when the first line of the extracted header text is not a request
\* line, the socket is shut down, no response is written, nothing is
\* dispatched, accept_next becomes false, and the worker leaves its loop.
C8_BadRequestLineShutsDown ==
    [][/\ ExtractReads =>
            \A chunk \in {ReadChunk} :
                HasTerminator(chunk) =>
                    \A text \in {header_bytes \o Take(chunk, FirstTerminator(chunk))} :
                        ~IsRequestLine(Split(text, CRLF)[1]) =>
                            /\ shut'
                            /\ ~accept_next'
                            /\ wire' = wire
                            /\ served' = served
                            /\ pc' = "loop"
       /\ (pc = "loop" /\ ~accept_next /\ pc' # pc) => pc' = "done"]_vars

\* GARBAGE was rejected and the worker has terminated.
C8_Witness ==
    /\ header_bytes = Take(REQ_GARBAGE, Len(REQ_GARBAGE) - 4)
    /\ pc = "done"
    /\ shut
    /\ wire = <<>>
    /\ served = <<>>

\* The connection with the two GET requests, and what each is dispatched with.
KeepAliveStream == Bodiless(REQ_GET_A) \o Bodiless(REQ_GET_F)
KeepAliveHeaders == [k \in {STR_Connection} |-> <<STR_keep_alive>>]
KeepAliveRequests ==
    <<[pathname |-> PATH_A, method |-> STR_GET, raw_path |-> PATH_A,
       headers |-> KeepAliveHeaders],
      [pathname |-> PATH_F, method |-> STR_GET,
       raw_path |-> SubSeq(LINE_GET_F, 5, Len(LINE_GET_F) - 11),
       headers |-> KeepAliveHeaders]>>
RegisteredFor(pathname) == {Paths[i].view : i \in {j \in 1..Len(Paths) : Paths[j].name = pathname}}

\* C9: on the connection with two keep-alive GET requests the socket is not
\* shut down, a request whose bytes the worker has all read has been
\* dispatched, and each dispatch goes to a handler registered for the
\* pathname of the request with its own method, path and headers.
C9_KeepAliveReuse ==
    input = KeepAliveStream =>
        /\ ~shut
        /\ Len(served) <= 2
        /\ (sent > 0 /\ sock = <<>>) => Len(served) = sent
        /\ \A i \in 1..Len(served) :
            /\ served[i].view \in RegisteredFor(KeepAliveRequests[i].pathname)
            /\ served[i].method = KeepAliveRequests[i].method
            /\ served[i].raw_path = KeepAliveRequests[i].raw_path
            /\ served[i].headers = KeepAliveRequests[i].headers

\* C10: when a read of n bytes holds the terminator at index k, the header
\* text is the accumulated bytes followed by bytes [0,k) of the read and the
\* partial body is bytes [k+4,n) of the read: header text, terminator and
\* partial body are the accumulated bytes followed by the read.
C10_SplitAtTerminator ==
    [][ExtractReads =>
        \A chunk \in {ReadChunk} :
            HasTerminator(chunk) =>
                \A k \in {FirstTerminator(chunk)} :
                    \A leftover \in {SubSeq(chunk, k + 5, Len(chunk))} :
                        /\ header_bytes' = header_bytes \o SubSeq(chunk, 1, k)
                        /\ header_bytes' \o CRLFCRLF \o leftover = header_bytes \o chunk
                        /\ Len(served') > Len(served) =>
                                request'.partial_body = Some(leftover)]_vars

\* The head and the body of the raw POST came in the read that held the
\* terminator.
C10_Witness ==
    /\ input = WithBody(HEAD_POST_TEXT, BODY_TEXT) \o Bodiless(REQ_GET_A)
    /\ pc = "handler"
    /\ Len(served) = 1
    /\ header_bytes = Take(HEAD_POST_TEXT, Len(HEAD_POST_TEXT) - 4)
    /\ request.partial_body = Some(BODY_TEXT)

\* C11: the header extractor terminates at the terminator also when the
\* terminator is split across two consecutive reads: it never goes on
\* reading once the bytes it has accumulated hold the terminator.
C11_SplitTerminatorFound ==
    pc = "extract" => ~HasTerminator(header_bytes)

\* A pass of the loop of extract_headers.
ExtractPass == pc = "extract" /\ (header_bytes' # header_bytes \/ pc' # "extract")

\* extract_headers returns an error: decode_request clears accept_next and
\* returns, no headers were returned and nothing was dispatched.
ExtractFails ==
    /\ pc' = "loop"
    /\ ~accept_next'
    /\ served' = served
    /\ wire' = wire
    /\ sock' = sock

\* C12: the header extractor fails whenever the accumulated header bytes
\* have reached or exceeded max_size before the terminator is found, and
\* whenever a read returns zero bytes or an error (the reads of an empty or
\* shut-down socket); in both cases no headers are returned.
C12_HeaderLimitAndDisconnect ==
    [][/\ (ExtractPass /\ Len(header_bytes) >= max_size) => ExtractFails
       /\ (ExtractPass /\ (sock = <<>> \/ shut)) => ExtractFails]_vars

\* The connection whose first request is the url-encoded POST, and the
\* decoding of its body a=1&b=2.
UrlEncodedStream == WithBody(HEAD_POST_URLENCODED, BODY_URLENCODED) \o Bodiless(REQ_GET_A)
UrlEncodedFields == [k \in {<<97>>, <<98>>} |-> IF k = <<97>> THEN <<(<<49>>)>> ELSE <<(<<50>>)>>]

\* C13: whatever prefix of the url-encoded body came as partial body, the
\* rest coming through later reads, url_encoded::parse returns Ok with the
\* decoding of the complete body.
C13_UrlEncodedAnyPrefix ==
    (/\ input = UrlEncodedStream
     /\ Len(served) = 1
     /\ pc = "handler"
     /\ outcome.decoder = "url_encoded")
        => (outcome.result = "ok" /\ request.form_data = UrlEncodedFields)


\* The fields of the query "%61=1" keyed by the decoded name: a -> ["1"].
EncodedKeyParams == [k \in {<<97>>} |-> <<(<<49>>)>>]
\* C14: parse_url_encoded stores every key=value piece under the percent-decoded
\* key, also when the encoded key differs from the decoded one, and never aborts:
\* the request "GET /f?%61=1" is dispatched with query_params a -> ["1"] and
\* the worker does not panic.
C14_DecodedKeyNeverAborts ==
    input = Bodiless(REQ_GET_ENCODED)
        => (/\ pc # "panic"
            /\ pc = "handler" => request.query_params = EncodedKeyParams)

\* The fields of the query "a=b=c&x&a=d" split on the first "=" only:
\* a -> ["b=c", "d"].
FirstEqualsParams == [k \in {<<97>>} |-> <<(<<98, 61, 99>>), (<<100>>)>>]
\* C15: each piece is split on its first "=" only, pieces without "=" are
\* dropped and repeated keys accumulate in input order: the request
\* "GET /f?a=b=c&x&a=d" is dispatched with query_params a -> ["b=c", "d"].
C15_SplitOnFirstEquals ==
    (input = Bodiless(REQ_GET_PAIRS) /\ pc = "handler")
        => request.query_params = FirstEqualsParams

\* A step in which the handler calls an accessor on a request whose body was
\* consumed before.
AccessorAfterBodyRead == pc = "handler" /\ request.body_read /\ calls' = calls + 1
\* C16: once body_read is true an accessor call returns at once and leaves the
\* socket and the request as they are; body() returns None, form_data() and
\* files() return the mappings the request holds, which are the ones the
\* same accessor returned before.
C16_BodyConsumedOnce ==
    [][AccessorAfterBodyRead =>
        /\ pc' = "handler"
        /\ sock' = sock
        /\ request' = request
        /\ outcome' = outcome
        /\ ret'.fn = "body" => ret'.value = None
        /\ ret'.fn = "form_data" => ret'.value = request.form_data
        /\ ret'.fn = "files" => ret'.value = request.form_files
        /\ (ret'.fn = ret.fn /\ ret.fn \in {"form_data", "files"}) => ret'.value = ret.value]_vars
\* form_data() has been called a second time on a request with decoded fields.
C16_Witness ==
    /\ pc = "handler"
    /\ calls = 2
    /\ request.body_read
    /\ ret.fn = "form_data"
    /\ ret.value # EmptyMap
    /\ ret.value = request.form_data

\* A step that writes a response in full: send() with a status set, or the
\* 404 of the driver, with the write and the flush succeeding.
ResponseWritten == Len(wire') = Len(wire) + 1 /\ wire'[Len(wire')].flushed
HasKeepAliveHeader(req) ==
    STR_Connection \in DOMAIN req.headers /\ req.headers[STR_Connection][1] = STR_keep_alive
UploadStream == WithBody(HEAD_POST_UPLOAD, BODY_UPLOAD_HEADER) \o BodyWrite(BODY_UPLOAD_FILE)
\* The bytes of the file parts before their trailing "\r\n".
FILE_CONTENT_UPLOAD == <<74,111,104,110,32,68,111,101>>  \* John Doe
FILE_CONTENT_MULTIPART == <<104,105>>  \* hi
FileContentSent == IF input = UploadStream THEN FILE_CONTENT_UPLOAD ELSE FILE_CONTENT_MULTIPART
IsPrefix(s, t) == Len(s) <= Len(t) /\ SubSeq(t, 1, Len(s)) = s
SpooledAs(parts, content) ==
    \A i \in 1..Len(parts) :
        IsSome(parts[i].temp_file) => Unwrap(parts[i].temp_file).content = content
\* C18: a file part whose bytes before the separator "\r\n--b" end with
\* "\r\n" ("John Doe\r\n" in UploadStream, "hi\r\n" in MultipartStream):
\* whatever the chunks in which the body is read, the trailing "\r\n" is never
\* written to the spooled file; while the file is being written it holds a
\* prefix of the preceding bytes and once spooled exactly these bytes.
C18_TrailingCrlfStripped ==
    input \in {UploadStream, MultipartStream} =>
        /\ SpooledAs(outcome.parts, FileContentSent)
        /\ dec.kind = "form" =>
            /\ SpooledAs(dec.m.form_parts, FileContentSent)
            /\ dec.m.st \in {"file", "file_tail"} => IsPrefix(dec.m.temp_file, FileContentSent)
            /\ dec.m.st = "file_tail" => dec.m.temp_file = FileContentSent
\* The file "John Doe" has been spooled and handed to the handler.
C18_Witness ==
    /\ input = UploadStream
    /\ pc = "handler"
    /\ outcome.result = "ok"
    /\ Len(outcome.parts) = 1
    /\ outcome.parts[1].filename = Some(<<97>>)
    /\ outcome.parts[1].temp_file = Some([content |-> FILE_CONTENT_UPLOAD, pos |-> 0])

\* A multipart body of two parts of zero bytes: the value n, not the last
\* part, and the file m, the last part.
EmptyPartsStream == WithBody(HEAD_POST_EMPTY_PARTS, BODY_EMPTY_PARTS)
\* C19: a part of zero bytes is parsed as a part with empty content, both as
\* a part that is followed by another and as the last part: the body of
\* EmptyPartsStream decodes to two parts, a value of no bytes and then a
\* file of no bytes.
C19_EmptyParts ==
    (input = EmptyPartsStream /\ pc = "handler" /\ outcome.decoder = "multipart")
        => /\ outcome.result = "ok"
           /\ Len(outcome.parts) = 2
           /\ outcome.parts[1].value = Some(<<>>)
           /\ outcome.parts[2].temp_file = Some([content |-> <<>>, pos |-> 0])

\* Requests that declare one byte more than max_body_size of their decoder.
MultipartOverStream == WithBody(HEAD_POST_MULTIPART_OVER, BODY_MULTIPART)
UrlEncodedOverStream == WithBody(HEAD_POST_URLENCODED_OVER, BODY_URLENCODED)
\* C20: when the declared Content-Length exceeds max_body_size, the multipart
\* and the url-encoded decoder return MaxBodySizeExceed before any reader
\* operation: the worker is never in get_chunk or get_exact of these
\* decoders, so they take no byte from the socket, and whenever one of them
\* has run its result is the error MaxBodySizeExceed.
C20_OverLimitRejectedBeforeReading ==
    input \in {MultipartOverStream, UrlEncodedOverStream} =>
        /\ pc \notin {"form", "url"}
        /\ dec.kind \notin {"form", "url"}
        /\ outcome.decoder \in {"multipart", "url_encoded"} =>
            /\ outcome.result = "err"
            /\ outcome.err = "MaxBodySizeExceed"
            /\ outcome.decoder = (IF input = MultipartOverStream THEN "multipart" ELSE "url_encoded")
\* The multipart decoder has refused the body, whose bytes are still queued
\* in the socket.
C20_Witness ==
    /\ input = MultipartOverStream
    /\ pc = "handler"
    /\ outcome.decoder = "multipart"
    /\ outcome.err = "MaxBodySizeExceed"
    /\ ret.fn \in {"form_data", "files"}
    /\ Len(sock) > 0

\* C21: when the decode of the body fails the handler sees no error and no
\* partial result: the mappings of the request are empty, form_data() and
\* files() return empty mappings and body() returns None.
C21_DecodeFailureYieldsEmpty ==
    (pc = "handler" /\ outcome.result = "err") =>
        /\ request.form_data = EmptyMap
        /\ request.form_files = EmptyMap
        /\ ret.fn \in {"form_data", "files"} => ret.value = EmptyMap
        /\ ret.fn = "body" => ret.value = None
\* form_data() has returned after the multipart decoder failed behind a
\* part it had already parsed.
C21_Witness ==
    /\ input = EmptyPartsStream
    /\ pc = "handler"
    /\ outcome.decoder = "multipart"
    /\ outcome.result = "err"
    /\ ret.fn = "form_data"
    /\ ret.value = EmptyMap

\* The raw path of a request line, the piece between its first and its last
\* space, and the pathname, the raw path before its first "?".
RawPathOf(line) ==
    LET spaces == {i \in 1..Len(line) : line[i] = 32}
    IN  SubSeq(line, MinOf(spaces) + 1, MaxOf(spaces) - 1)
PathnameOf(raw_path) ==
    LET marks == {i \in 1..Len(raw_path) : raw_path[i] = 63}
    IN  IF marks = {} THEN raw_path ELSE SubSeq(raw_path, 1, MinOf(marks) - 1)
\* The step dispatches to a handler registered for pathname, or, when there
\* is none, answers 404 itself (or fails to write the answer).
DispatchedOnce(pathname) ==
    /\ Len(served') = Len(served) + 1
    /\ \A d \in {served'[Len(served')]} :
        IF \E i \in 1..Len(Paths) : Paths[i].name = pathname
        THEN /\ d.view \in RegisteredFor(pathname)
             /\ pc' = "handler"
             /\ wire' = wire
        ELSE /\ d.view = "not_found"
             /\ pc' = "loop"
             /\ \/ wire' = wire /\ ~accept_next'
                \/ Len(wire') = Len(wire) + 1 /\ wire'[Len(wire')].status = 404
\* C22: every request whose request line parses is dispatched exactly once,
\* to a handler registered under its pathname if there is one and to the 404
\* response otherwise; no other step dispatches.
C22_DispatchedExactlyOnce ==
    [][/\ ExtractReads =>
            \A chunk \in {ReadChunk} :
                HasTerminator(chunk) =>
                    \A line \in {Split(header_bytes \o Take(chunk, FirstTerminator(chunk)), CRLF)[1]} :
                        IsRequestLine(line) => DispatchedOnce(PathnameOf(RawPathOf(line)))
       /\ ~ExtractReads => served' = served]_vars

STR_Content_Length_Colon == <<67,111,110,116,101,110,116,45,76,101,110,103,116,104,58,32>>  \* Content-Length: 
\* The content the handlers of the model and the 404 of the driver send.
ContentSent(status) == IF status = 404 THEN STR_404_NOT_FOUND ELSE STR_Hello
\* C23: the bytes of every response, whatever the order of its header
\* lines, hold one Content-Length line, whose value is the byte length of the
\* content; behind the first blank line come the bytes of the content, once,
\* and for a request with method HEAD nothing.  It is stated when the
\* handler or the driver has just returned, for the last response of a
\* connection on which every dispatch was answered.
C23_ContentLengthAndBody ==
    (pc = "loop" /\ wire # <<>> /\ Len(wire) = Len(served)) =>
        \A order \in key_orders(wire[Len(wire)].headers) :
            \A bytes \in {response_bytes(wire[Len(wire)], order)} :
                \A blank \in {Unwrap(Position(bytes, CRLFCRLF))} :
                    LET lines == Split(Take(bytes, blank), CRLF)
                        lengths == {j \in 2..Len(lines) : StartsWith(lines[j], STR_Content_Length_Colon)}
                        content == ContentSent(wire[Len(wire)].status)
                    IN  /\ Cardinality(lengths) = 1
                        /\ \A j \in lengths :
                            Drop(lines[j], Len(STR_Content_Length_Colon)) = Decimal(Len(content))
                        /\ Drop(bytes, blank + 4) =
                                (IF served[Len(served)].method = STR_HEAD THEN <<>> ELSE content)
\* A HEAD request was answered: Content-Length 5 and no body bytes.
C23_Witness ==
    /\ input = Bodiless(REQ_HEAD_A)
    /\ pc = "loop"
    /\ Len(wire) = 1
    /\ Len(served) = 1
    /\ wire[1].flushed
    /\ wire[1].status = 200
    /\ wire[1].headers[STR_Content_Length] = <<(<<53>>)>>
    /\ wire[1].body = <<>>

\* C24: the header extraction of a further request begins only after the
\* response to every request dispatched before it has been written in full
\* and flushed.
C24_StrictlySerialised == [][StartsNextRequest => AllAnswered]_vars

\* The method is GET, HEAD, OPTIONS, DELETE, TRACE or CONNECT in any case of
\* its letters.
NamesBodilessMethod(method) ==
    \E m \in {STR_GET, STR_HEAD, STR_OPTIONS, STR_DELETE, STR_TRACE, STR_CONNECT} :
        /\ Len(m) = Len(method)
        /\ \A i \in 1..Len(m) : method[i] \in {m[i], m[i] + 32}
\* The request has been set up and no accessor and no decoder has run on it:
\* it has just been handed to its handler, or was answered by the 404.
JustSetUp ==
    \/ pc = "handler" /\ calls = 0
    \/ pc = "loop" /\ served # <<>> /\ served[Len(served)].view = "not_found"
\* C25: after setup() body_read is true exactly when the method is one of
\* GET, HEAD, OPTIONS, DELETE, TRACE, CONNECT, in any case, and the request
\* has no Content-Length header.
C25_BodyReadAtSetup ==
    JustSetUp =>
        (request.body_read <=> (/\ NamesBodilessMethod(request.method)
                                /\ STR_Content_Length \notin DOMAIN request.headers))
\* The request "delete /a" has reached its handler with body_read true.
C25_Witness ==
    /\ input = Bodiless(REQ_DELETE_LOWER_A)
    /\ pc = "handler"
    /\ calls = 0
    /\ request.method # STR_DELETE
    /\ request.body_read

\* The multipart parser has consumed the separator of a part and is blocked
\* in get_exact for the bytes of the boundary tail.
TailWait == pc = "form" /\ dec.m.st \in {"file_tail", "val_tail"} /\ dec.m.wait = "exact"
\* A step in which that get_exact succeeds.
TailRead ==
    /\ TailWait
    /\ ~dec.rd.body_ended /\ ~shut /\ Len(sock) >= dec.m.need
    /\ Len(sock') = Len(sock) - dec.m.need
\* C26: behind the separator of a part the parser asks get_exact for 4 minus
\* the buffered count of bytes; with the 4 bytes at hand, "--\r\n" completes
\* the list of parts, "\r\n" is consumed and the parser goes on to the header
\* of the next part, and anything else fails with ParsingError.
C26_BoundaryTail ==
    [][/\ TailWait => (Len(dec.m.body_buffer) < 4 /\ dec.m.need = 4 - Len(dec.m.body_buffer))
       /\ TailRead =>
            \A four \in {dec.m.body_buffer \o Take(sock, dec.m.need)} :
                IF four = <<45, 45, 13, 10>>
                THEN /\ pc' = "handler"
                     /\ outcome'.result = "ok"
                     /\ Len(outcome'.parts) = Len(dec.m.form_parts) + 1
                ELSE IF Take(four, 2) = <<13, 10>>
                THEN /\ pc' = "form"
                     /\ dec'.m.st = "hdr"
                     /\ dec'.m.wait = "chunk"
                     /\ dec'.m.body_buffer = Drop(four, 2)
                     /\ Len(dec'.m.form_parts) = Len(dec.m.form_parts) + 1
                ELSE /\ pc' = "handler"
                     /\ outcome'.result = "err"
                     /\ outcome'.err = "ParsingError"]_vars
\* The parser waits in get_exact for the rest of a boundary tail of which it
\* holds a part.
C26_Witness ==
    /\ TailWait
    /\ dec.m.body_buffer # <<>>
    /\ dec.m.need = 4 - Len(dec.m.body_buffer)

\* multipart::parse called with a limit for one field: the value n ("Jo") or
\* the file f ("hi") of BODY_MULTIPART, of 1 to MaxPartLimit bytes.
FIELD_N == <<110>>  \* n
FIELD_F == <<102>>  \* f
PartLimits ==
    {[name \in {field} |-> [max_size |-> Some(size), content_type |-> None]] :
        field \in {FIELD_N, FIELD_F}, size \in 1..MaxPartLimit}

InitLimits ==
    /\ input = MultipartStream
    /\ sent = 0
    /\ sock = <<>>
    /\ shut = FALSE
    /\ accept_next = TRUE
    /\ pc = "loop"
    /\ header_bytes = <<>>
    /\ request = NoRequest
    /\ dec = NoDec
    /\ calls = 0
    /\ ret = NoRet
    /\ wire = <<>>
    /\ served = <<>>
    /\ body_origin = 0
    /\ outcome = NoOutcome
    /\ max_size = DECODE_MAX_HEADER_SIZE
    /\ form_part_limits \in PartLimits
    /\ part_header = <<>>
    /\ parsed_form_part = None
    /\ parked = <<>>

NextLimits ==
    \/ ClientSend
    \/ serve_client
    \/ extract_headers
    \/ HandlerFormData
    \/ FormGetChunk
    \/ FormGetExact

SpecLimits == InitLimits /\ [][NextLimits]_vars

\* The content of the parts of BODY_MULTIPART.
PartContent(field) == IF field = FIELD_N THEN <<74, 111>> ELSE <<104, 105>>
\* C27: with a limit of M bytes for the field F, the decode fails with
\* MaxFieldSizeExceed carrying F when the content of the part named F has
\* more than M bytes, and is not rejected for its size when the content has
\* at most M bytes, for the value part and for the file part alike.
C27_FieldLimit ==
    (pc = "handler" /\ outcome.decoder = "multipart") =>
        \A field \in DOMAIN form_part_limits :
            IF Len(PartContent(field)) > Unwrap(form_part_limits[field].max_size)
            THEN /\ outcome.result = "err"
                 /\ outcome.err = "MaxFieldSizeExceed"
                 /\ outcome.err_field = Some(field)
            ELSE outcome.err # "MaxFieldSizeExceed"

\* A client that writes the next request together with the body of the
\* request before it.
PipelinedStream == WithBody(HEAD_POST_TEXT, BODY_TEXT \o REQ_GET_A)
\* The bytes behind the header terminator that the worker has taken: the
\* partial body and what the readers have read.
TakenBehindHead == body_origin - (Len(sock) + unsent(Cur))
\* A step in which a body reader reads from the socket.
ReaderReads == pc \in {"body", "url", "form"} /\ Len(sock') < Len(sock)
\* C28: a read of a body reader never takes the worker beyond the declared
\* Content-Length: the partial body and the bytes read stay within it.
C28_ReadersLengthBounded ==
    [][(/\ ReaderReads
        /\ STR_Content_Length \in DOMAIN request.headers
        /\ TakenBehindHead <= Unwrap(content_length(request.headers)))
            => TakenBehindHead' <= Unwrap(content_length(request.headers))]_vars

\* The worker is inside multipart::parse, blocked in a call of the reader.
InFormReader == pc = "form" /\ IsSome(dec.rd.content_length)
\* C29: the multipart reader with a Content-Length has body_ended true
\* exactly when the partial body and the bytes it has read reach the
\* Content-Length; body_ended never returns to false; and a get_chunk or
\* get_exact that is called with body_ended true fails with BodyReadEnd and
\* reads nothing from the socket.
C29_BodyEnded ==
    [][/\ InFormReader =>
            (dec.rd.body_ended <=> TakenBehindHead >= Unwrap(dec.rd.content_length))
       /\ (InFormReader /\ dec.rd.body_ended /\ pc' = "form") => dec'.rd.body_ended
       /\ (InFormReader /\ dec.rd.body_ended /\ sent' = sent) =>
            /\ sock' = sock
            /\ pc' = "handler"
            /\ outcome'.decoder = "multipart"
            /\ outcome'.result = "err"
            /\ outcome'.err = "BodyReadEnd"]_vars
\* The parser has asked the reader for more behind the end of the body and
\* multipart::parse has returned BodyReadEnd.
C29_Witness ==
    /\ pc = "handler"
    /\ outcome.decoder = "multipart"
    /\ outcome.err = "BodyReadEnd"
    /\ TakenBehindHead >= Unwrap(content_length(request.headers))
\* ---------------------------------------------------------------------------
\* C30. When the socket read made by the multipart reader's get_chunk returns
\* zero bytes, get_chunk fails with BodyReadEnd.

\* The multipart decoder has just failed on a read of get_chunk that returned
\* zero bytes.
ZeroByteChunkRead ==
    /\ pc = "handler"
    /\ outcome.decoder = "multipart"
    /\ outcome.result = "err"
    /\ outcome.err_text = TEXT_READ_SIZE_ZERO

C30_ZeroReadIsBodyReadEnd == ZeroByteChunkRead => outcome.err = "BodyReadEnd"

\* ---------------------------------------------------------------------------
\* C31. An error from header extraction or from writing the response stops
\* the loop of the connection: when extract_headers fails nothing is
\* dispatched, nothing is written and accept_next is false; when the write of
\* the head or the flush fails in send(), accept_next is false; in both cases
\* no further request is read on the connection.

\* extract_headers returns an error in this step: the limit is exceeded, or
\* the read fails or returns nothing.
ExtractErrs == pc = "extract" /\ sent' = sent /\ (sock = <<>> \/ Len(header_bytes) > max_size)

\* The step writes a response whose flush fails.
FlushFails == Len(wire') = Len(wire) + 1 /\ ~wire'[Len(wire')].flushed

\* The step dispatches to serve_not_found and the write of the head fails.
NotFoundWriteFails ==
    /\ Len(served') = Len(served) + 1
    /\ served'[Len(served')].view = "not_found"
    /\ wire' = wire

\* The loop has stopped: the worker reads nothing more.
LoopStopped == (pc = "loop" /\ ~accept_next) \/ pc = "done"

C31_ErrorsStopTheLoop ==
    [][/\ ExtractErrs => (served' = served /\ wire' = wire /\ ~accept_next' /\ pc' = "loop")
       /\ FlushFails => ~accept_next'
       /\ NotFoundWriteFails => ~accept_next'
       /\ pc = "handler" => ~send(Cur, Some(200), STR_Hello, "write_failed").accept_next
       /\ LoopStopped => (pc' \in {"loop", "done"} /\ Len(sock') >= Len(sock)
                          /\ served' = served /\ wire' = wire)]_vars

\* A keep-alive request was answered and the connection left open; the client
\* went away, the next extract_headers failed and the loop has ended.
C31_Witness ==
    /\ pc = "done"
    /\ Len(served) = 1
    /\ AllAnswered
    /\ ~shut
    /\ ~accept_next

\* ---------------------------------------------------------------------------
\* C32. Every temporary file handed to user code stands at offset 0: the
\* file body() returns, and the temp_file of every file part the multipart
\* parser returns, the last part or not.
C32_FilesAtOffsetZero ==
    /\ (ret.fn = "body" /\ IsSome(ret.value)) => Unwrap(ret.value).pos = 0
    /\ \A i \in DOMAIN outcome.parts :
            IsSome(outcome.parts[i].temp_file) => Unwrap(outcome.parts[i].temp_file).pos = 0
    /\ \A name \in DOMAIN request.form_files :
            \A i \in DOMAIN request.form_files[name] :
                request.form_files[name][i].temp_file.pos = 0

\* The parser has returned a file part that holds bytes and is followed by
\* another part.
FileFirstStream == WithBody(HEAD_POST_FILE_FIRST, BODY_FILE_FIRST)
C32_Witness ==
    /\ input = FileFirstStream
    /\ pc = "handler"
    /\ outcome.decoder = "multipart"
    /\ outcome.result = "ok"
    /\ Len(outcome.parts) = 2
    /\ IsSome(outcome.parts[1].temp_file)
    /\ Unwrap(outcome.parts[1].temp_file).content # <<>>
    /\ Unwrap(outcome.parts[1].temp_file).pos = 0

\* ---------------------------------------------------------------------------
\* parse_form_part_header on its own: the caller gives it a header block of
\* at most MaxPartLines lines and takes the FormPart it returns.
\* Content-Disposition: form-data; name="n"
PART_LINE_NAME ==
    <<67,111,110,116,101,110,116,45,68,105,115,112,111,115,105,116,105,111,110,58,32,102,111,114,109,45,100,97,116,97,59,32,110,97,109,101,61,34,110,34>>
\* content-disposition: form-data; name="f"; filename="a"
PART_LINE_FILE_LOWER ==
    <<99,111,110,116,101,110,116,45,100,105,115,112,111,115,105,116,105,111,110,58,32,102,111,114,109,45,100,97,116,97,59,32,110,97,109,101,61,34,102,34,59,32,102,105,108,101,110,97,109,101,61,34,97,34>>
\* CONTENT-TYPE: t/p
PART_LINE_TYPE_UPPER ==
    <<67,79,78,84,69,78,84,45,84,89,80,69,58,32,116,47,112>>
\* Content-Type: t:p
PART_LINE_TYPE_COLON ==
    <<67,111,110,116,101,110,116,45,84,121,112,101,58,32,116,58,112>>
\* X-Y: z
PART_LINE_UNKNOWN ==
    <<88,45,89,58,32,122>>
\* Content-Disposition: attachment; name="n"
PART_LINE_ATTACHMENT ==
    <<67,111,110,116,101,110,116,45,68,105,115,112,111,115,105,116,105,111,110,58,32,97,116,116,97,99,104,109,101,110,116,59,32,110,97,109,101,61,34,110,34>>
\* Content-Disposition: form-data; name="a:b"
PART_LINE_NAME_COLON ==
    <<67,111,110,116,101,110,116,45,68,105,115,112,111,115,105,116,105,111,110,58,32,102,111,114,109,45,100,97,116,97,59,32,110,97,109,101,61,34,97,58,98,34>>
PART_LINE_EMPTY == <<>>

PartLines ==
    {PART_LINE_NAME, PART_LINE_FILE_LOWER, PART_LINE_TYPE_UPPER, PART_LINE_TYPE_COLON,
     PART_LINE_UNKNOWN, PART_LINE_ATTACHMENT, PART_LINE_NAME_COLON, PART_LINE_EMPTY}

\* The lines joined by "\r\n".
RECURSIVE JoinLines(_)
JoinLines(lines) ==
    IF Len(lines) = 1 THEN lines[1] ELSE lines[1] \o CRLF \o JoinLines(Drop(lines, 1))

PartHeaderBlocks ==
    {JoinLines(lines) : lines \in UNION {[1..n -> PartLines] : n \in 1..MaxPartLines}}

InitPartHeader ==
    /\ input = Bodiless(REQ_GET_A)
    /\ sent = 0
    /\ sock = <<>>
    /\ shut = FALSE
    /\ accept_next = TRUE
    /\ pc = "loop"
    /\ header_bytes = <<>>
    /\ request = NoRequest
    /\ dec = NoDec
    /\ calls = 0
    /\ ret = NoRet
    /\ wire = <<>>
    /\ served = <<>>
    /\ body_origin = 0
    /\ outcome = NoOutcome
    /\ max_size = DECODE_MAX_HEADER_SIZE
    /\ form_part_limits = EmptyMap
    /\ part_header \in PartHeaderBlocks
    /\ parsed_form_part = None
    /\ parked = <<>>

\* The call of parse_form_part_header.
ParseFormPartHeader ==
    /\ parsed_form_part = None
    /\ parsed_form_part' = Some(parse_form_part_header(part_header))
    /\ UNCHANGED <<input, sent, sock, shut, accept_next, pc, header_bytes, request, dec,
                   calls, ret, wire, served, body_origin, outcome, max_size,
                   form_part_limits, part_header, parked>>

SpecPartHeader == InitPartHeader /\ [][ParseFormPartHeader]_vars

\* C33. Part-header parsing: header names are matched without regard to
\* case; a Content-Disposition value that begins with "form-data;" sets the
\* name of the part from name="..." and its filename from filename="..."
\* when there is one, and the filename stays absent otherwise; Content-Type
\* sets the content type of the part; every other line, the empty ones too,
\* is ignored, and parsing never fails.

\* The name and the value of a header line: what stands before and after its
\* first colon, trimmed.
LineName(line) == Trim(Splitn2(Trim(line), <<58>>)[1])
LineValue(line) == Trim(Splitn2(Trim(line), <<58>>)[2])
HasColon(line) == Len(Splitn2(Trim(line), <<58>>)) = 2

\* The text between the quotes of attribute="..." in value, if it is there.
QuotedAttribute(value, attribute) ==
    LET opening == attribute \o <<61, 34>>
        at == {i \in 1..Len(value) :
                  /\ StartsWith(Drop(value, i - 1), opening)
                  /\ (i = 1 \/ ~IsWord(value[i - 1]))
                  /\ \E q \in (i + Len(opening))..Len(value) : value[q] = 34}
    IN  IF at = {} THEN None
        ELSE LET from == MaxOf(at) + Len(opening)
                 to == MinOf({q \in from..Len(value) : value[q] = 34})
             IN  Some(SubSeq(value, from, to - 1))

\* The part the lines describe, the later lines overriding the earlier.
RECURSIVE DescribedPart(_, _)
DescribedPart(lines, part) ==
    IF lines = <<>> THEN part
    ELSE LET line == lines[1]
             value == LineValue(line)
             named == QuotedAttribute(value, STR_name)
             filed == QuotedAttribute(value, STR_filename)
             next ==
                IF ~HasColon(line) THEN part
                ELSE IF ToLower(LineName(line)) = STR_content_disposition
                        /\ StartsWith(value, STR_form_data)
                THEN [part EXCEPT !.name = IF IsSome(named) THEN named ELSE @,
                                  !.filename = IF IsSome(filed) THEN filed ELSE @]
                ELSE IF ToLower(LineName(line)) = STR_content_type
                THEN [part EXCEPT !.content_type = Some(value)]
                ELSE part
         IN  DescribedPart(Drop(lines, 1), next)

C33_PartHeaderParsed ==
    IsSome(parsed_form_part) =>
        Unwrap(parsed_form_part) = DescribedPart(Split(part_header, CRLF), EmptyFormPart)

\* ---------------------------------------------------------------------------
\* C34. Stopping is permanent: once accept_next of the connection is false,
\* or its socket has been shut down by send() or by the rejection of the
\* request line, accept_next never becomes true again and no further header
\* extraction is started on the connection.
Stopped == ~accept_next \/ shut

C34_StoppingIsPermanent ==
    [][/\ Stopped => pc # "extract"
       /\ Stopped => (~accept_next' /\ pc' # "extract")
       /\ shut' => ~accept_next'
       /\ shut => shut']_vars

\* The socket was shut down while the client had a further request to send,
\* and the loop has ended.
C34_Witness ==
    /\ pc = "done"
    /\ shut
    /\ ~accept_next
    /\ sent < Len(input)
    /\ wire # <<>>

\* ---------------------------------------------------------------------------
\* The client makes the writes it has to make, and the worker thread keeps
\* running while it is inside body(): a read that can return returns in the
\* end.
SpecLive == Spec /\ WF_vars(ClientSend) /\ WF_vars(BodyGetChunk)

\* C35. body() always returns: when the client closes the connection before
\* Content-Length bytes of the body have come, so that the reads of the
\* socket return zero bytes, body() returns None after finitely many reads.
C35_BodyReturns == (pc = "body") ~> (pc # "body")

\* ---------------------------------------------------------------------------
\* C36. With a Content-Length, the multipart parser over the socket reader
\* ends with Ok or Err whatever the body holds, when the client delivers the
\* bytes it declared or disconnects: every pass of the header loop, of the
\* loops over the body of a part and of the loop over the parts consumes at
\* least one byte of the input or returns.

\* The parser is inside a call of the reader, with a Content-Length.
InFormDecoder == pc = "form" /\ IsSome(dec.rd.content_length)

\* The reader call under way can return: its read does not block.
ReaderCanReturn ==
    IF dec.m.wait = "chunk"
    THEN reads(Cur, ~dec.rd.body_ended, 8192) # {}
    ELSE dec.rd.body_ended \/ shut \/ Len(sock) >= dec.m.need \/ ~can_send(Cur)

C37_PartialBodyStaysWithRequest ==
    [][/\ (pc # "extract" /\ pc' = "extract") => header_bytes' = <<>>
       /\ (pc = "extract" /\ sent' # sent) => header_bytes' = header_bytes
       /\ (pc = "extract" /\ sent' = sent) =>
            \A chunk \in {ReadChunk} :
                /\ IsPrefix(header_bytes', header_bytes \o chunk)
                /\ Len(served') > Len(served) =>
                        /\ IsSome(request'.partial_body)
                        /\ header_bytes' \o CRLFCRLF \o Unwrap(request'.partial_body)
                                = header_bytes \o chunk]_vars

\* A request kept bytes of its body as partial_body, its handler returned
\* without reading them, and the next extraction has taken bytes from the
\* socket.
C37_Witness ==
    /\ pc = "extract"
    /\ Len(served) = 1
    /\ IsSome(request.partial_body)
    /\ Unwrap(request.partial_body) # <<>>
    /\ header_bytes # <<>>

\* ---------------------------------------------------------------------------
\* C39. When several entries of the path table have a name equal to the
\* pathname of the request, one handler is invoked for the request, and it
\* is the view of the last of these entries in the order of the table.
EntriesNamed(pathname) == {i \in 1..Len(Paths) : Paths[i].name = pathname}

\* The step dispatches the request to the view of the last of the entries.
TakesLastEntry(hits) ==
    /\ Len(served') = Len(served) + 1
    /\ served'[Len(served')].view = Paths[MaxOf(hits)].view
    /\ pc' = "handler"
    /\ wire' = wire

C39_LastEntryWins ==
    [][ExtractReads =>
        \A chunk \in {ReadChunk} :
            HasTerminator(chunk) =>
                \A line \in {Split(header_bytes \o Take(chunk, FirstTerminator(chunk)), CRLF)[1]} :
                    IsRequestLine(line) =>
                        \A hits \in {EntriesNamed(PathnameOf(RawPathOf(line)))} :
                            Cardinality(hits) > 1 => TakesLastEntry(hits)]_vars


\* ---------------------------------------------------------------------------
\* The multipart decoder on a request without Content-Length.
NoLengthStream == WithBody(HEAD_POST_NO_LENGTH, BODY_MULTIPART)
\* The same request, its first write carrying the first boundary line and the
\* start of the first part header with the head.
NoLengthEagerStream ==
    Bodiless(HEAD_POST_NO_LENGTH \o Take(BODY_MULTIPART, 9))
        \o BodyWrite(Drop(BODY_MULTIPART, 9))

InitNoLength ==
    /\ input \in {NoLengthStream, NoLengthEagerStream}
    /\ sent = 0
    /\ sock = <<>>
    /\ shut = FALSE
    /\ accept_next = TRUE
    /\ pc = "loop"
    /\ header_bytes = <<>>
    /\ request = NoRequest
    /\ dec = NoDec
    /\ calls = 0
    /\ ret = NoRet
    /\ wire = <<>>
    /\ served = <<>>
    /\ body_origin = 0
    /\ outcome = NoOutcome
    /\ max_size = DECODE_MAX_HEADER_SIZE
    /\ form_part_limits = EmptyMap
    /\ part_header = <<>>
    /\ parsed_form_part = None
    /\ parked = <<>>

SpecNoLength == InitNoLength /\ [][NextLimits]_vars

\* C40. Without Content-Length, after every get_chunk or get_exact that
\* succeeds the tail buffer of the multipart reader holds the last
\* min(len("--B\r\n"), bytes read) bytes received so far, whatever the size of
\* the chunk (shorter than the boundary line, as long, or longer), and
\* body_ended becomes true once the tail equals "--B\r\n"; updating the tail
\* never aborts.

\* The last n elements of s, or s when it is shorter.
LastOf(s, n) == IF Len(s) <= n THEN s ELSE SubSeq(s, Len(s) - n + 1, Len(s))

\* The reader without Content-Length takes bytes from the socket.
NoLengthReaderReads ==
    /\ pc = "form"
    /\ ~IsSome(dec.rd.content_length)
    /\ Len(sock') < Len(sock)

C40_TailBuffer ==
    [][NoLengthReaderReads =>
        \A tail \in {LastOf(dec.rd.body_buffer \o ReadChunk,
                             Len(dec.rd.boundary_end_bytes))} :
            /\ pc' # "panic"
            /\ pc' = "form" =>
                    /\ dec'.rd.body_buffer = tail
                    /\ dec'.rd.body_ended <=>
                            (dec.rd.body_ended \/ tail = dec.rd.boundary_end_bytes)]_vars

\* ---------------------------------------------------------------------------
\* Two connections, each served by its own worker thread.

\* The connections the listener has accepted.
WorkerStreams ==
    {Bodiless(REQ_GARBAGE) \o Bodiless(REQ_GET_A),
     Bodiless(REQ_GET_A) \o Bodiless(REQ_GET_X)}

\* The state of a worker that spawn has just started on its connection.
Spawned ==
    [sent |-> 0, sock |-> <<>>, shut |-> FALSE, accept_next |-> TRUE, pc |-> "loop",
     header_bytes |-> <<>>, request |-> NoRequest, dec |-> NoDec, calls |-> 0,
     ret |-> NoRet, wire |-> <<>>, served |-> <<>>, body_origin |-> 0,
     outcome |-> NoOutcome]

\* listen_connections has accepted two connections and spawned a worker on
\* each; worker 1 is running.
InitWorkers ==
    /\ input \in WorkerStreams
    /\ sent = 0
    /\ sock = <<>>
    /\ shut = FALSE
    /\ accept_next = TRUE
    /\ pc = "loop"
    /\ header_bytes = <<>>
    /\ request = NoRequest
    /\ dec = NoDec
    /\ calls = 0
    /\ ret = NoRet
    /\ wire = <<>>
    /\ served = <<>>
    /\ body_origin = 0
    /\ outcome = NoOutcome
    /\ max_size = DECODE_MAX_HEADER_SIZE
    /\ form_part_limits = EmptyMap
    /\ part_header = <<>>
    /\ parsed_form_part = None
    /\ parked \in {<<[id |-> 2, input |-> i, state |-> Spawned]>> : i \in WorkerStreams}

\* A worker resumed on a Context that every worker shares.
resumed_on_shared_context(own, ran) == [own EXCEPT !.accept_next = ran.accept_next]

\* What a worker finds when the scheduler resumes it: its stream, which
\* listen_connections moved into its thread, and the Context, Request and
\* flags that serve_client and decode_request created inside the thread, as
\* it left them.  The worker that ran meanwhile holds no reference to them.
resumed(own, ran) == own

\* The scheduler takes the processor from the running worker and gives it to
\* the other.
thread_switch ==
    /\ parked # <<>>
    /\ \E n \in {resumed(parked[1].state, Cur)} :
        /\ sent' = n.sent
        /\ sock' = n.sock
        /\ shut' = n.shut
        /\ accept_next' = n.accept_next
        /\ pc' = n.pc
        /\ header_bytes' = n.header_bytes
        /\ request' = n.request
        /\ dec' = n.dec
        /\ calls' = n.calls
        /\ ret' = n.ret
        /\ wire' = n.wire
        /\ served' = n.served
        /\ body_origin' = n.body_origin
        /\ outcome' = n.outcome
    /\ input' = parked[1].input
    /\ parked' = <<[id |-> 3 - parked[1].id, input |-> input, state |-> Cur]>>
    /\ UNCHANGED <<max_size, form_part_limits, part_header, parsed_form_part>>

NextWorkers ==
    \/ ClientSend
    \/ serve_client
    \/ extract_headers
    \/ HandlerSend
    \/ HandlerReturn
    \/ thread_switch

SpecWorkers == InitWorkers /\ [][NextWorkers]_vars

\* C38. Connections are isolated under every interleaving of the worker
\* threads: the workers share only the path table, so a step of one worker
\* (clearing accept_next, shutting its socket down, failing a decode, or any
\* other) leaves accept_next, body_read, body_parsed and the dispatches of
\* every other connection as they were, and so does a switch of threads; and
\* the read guard that a running handler holds in one worker does not keep
\* paths.read() from being granted to another.

Running == 3 - parked[1].id
Worker(i) == IF parked[1].id = i THEN parked[1].state ELSE Cur
\* What the claim says no other connection can change.
Own(i) ==
    [accept_next |-> Worker(i).accept_next,
     shut        |-> Worker(i).shut,
     body_read   |-> Worker(i).request.body_read,
     body_parsed |-> Worker(i).request.body_parsed,
     served      |-> Worker(i).served]

HandlerRunsElsewhere == read_guards(parked) > 0

=============================================================================
